---- MODULE Spec2Model ----
(***************************************************************************)
(* Barcode lookup of the CoverKeep backend (functions/src/api/products.ts): *)
(* the POST /lookup-barcode handler, its three source adapters, the         *)
(* fallback chain and the barcode_cache collection.                         *)
(*                                                                          *)
(* A handler run is split at its awaits: the request arrives and is         *)
(* validated (Request), cacheRef.get() resolves (CacheGet), each axios      *)
(* call resolves (UPCReturn, OFFReturn, EANReturn), cacheRef.set()          *)
(* resolves (CacheSet).  Two runs at a time interleave at these points;     *)
(* a run that has answered leaves its slot to the next request (Finish).    *)
(*                                                                          *)
(* Time is counted in seconds: the handler's millisecond values exceed      *)
(* the 32-bit integers of TLC, so the factor 1000 of cacheTTL is dropped    *)
(* on both sides of the comparison cacheAge < cacheTTL.                     *)
(***************************************************************************)
EXTENDS Integers, Sequences, FiniteSets, TLC

\* ------------------------------------------------------------------ bounds
\* number of requests of one behaviour
MaxLookups == 2
\* the clock takes the values 0, 1 and i * cacheTTL, 1 <= i <= MaxPeriods
MaxPeriods == 1
\* calls of identifyProduct in a behaviour
MaxAttempts == 2
\* claims created in a behaviour
MaxDrafts == 1
\* PUT and DELETE requests on claims in a behaviour
MaxClaimRequests == 2

\* ------------------------------------------------------- program constants
BARCODE_CACHE_TTL_DAYS == 30
cacheTTL == BARCODE_CACHE_TTL_DAYS * 24 * 60 * 60
MinBarcodeLen == 8
MaxBarcodeLen == 14

\* ---------------------------------------------------------- JS values
Undefined == "<undefined>"
Null == "<null>"
\* x || y on strings / undefined / null
Falsy(x) == x \in {Undefined, Null, ""}
Or(x, y) == IF Falsy(x) THEN y ELSE x

\* the null BarcodeProduct and a rejected promise
NoProduct == [null |-> TRUE]
Threw == [threw |-> TRUE]

UPCitemdb == "UPCitemdb"
OpenFoodFacts == "Open Food Facts"
EANSearch == "EAN-Search"
Adapters == {UPCitemdb, OpenFoodFacts, EANSearch}

\* ------------------------------------------------------------- barcodes
\* a string is a sequence of one-character strings
Digits == <<"0", "1", "2", "3", "4", "5", "6", "7", "8", "9">>
Code(n) == [i \in 1..n |-> Digits[(i % 10) + 1]]
Insert(s, pos, c) == SubSeq(s, 1, pos) \o <<c>> \o SubSeq(s, pos + 1, Len(s))

\* \s of a JS regular expression (the members that the inputs use) and '-'
Whitespace == {" ", "\t"}
Stripped == Whitespace \cup {"-"}
Alphanumeric == {Digits[i] : i \in 1..10}

\* raw inputs around both length limits, with and without separators
Short == Code(MinBarcodeLen - 1)
Long == Code(MaxBarcodeLen)
RawStrings ==
    { <<>>,
      Insert(Short, 4, "-"),
      Insert(Short, 4, "."),
      Insert(Insert(Insert(Insert(Short, 4, "."), 2, "-"), 1, " "), 7, "\t"),
      Insert(Long, 4, "-"),
      Insert(Long, 4, ".") }

\* req.body.barcode: a string, absent, or a value of another type
Bodies ==
    {[type |-> "string", str |-> s] : s \in RawStrings}
    \cup {[type |-> "undefined"], [type |-> "number", num |-> 12345678]}

\* mutant: only the dashes are removed
SanitizeDashes(barcode) == SelectSeq(barcode, LAMBDA c : c # "-")
\* barcode.replace(/[\s-]/g, '')
Sanitize(barcode) == SelectSeq(barcode, LAMBDA c : c \notin Stripped)

\* ------------------------------------------------------ provider replies
\* What an axios.get can settle with: a rejection (timeout after 5 s, a
\* network error, a non-2xx status) or a response whose data is the parsed
\* body.  A body that is not JSON is handed over as a string: every
\* property read on it is undefined.
Rejections == {[kind |-> "timeout"], [kind |-> "error"]}
Garbage == [kind |-> "response", data |-> [text |-> "<html>"]]
Response(d) == [kind |-> "response", data |-> d]
\* obj.f of a parsed body (undefined when the property is missing)
Has(obj, f) == f \in DOMAIN obj

UPCItems ==
    { [title |-> "Towel Set", brand |-> "WestPoint", category |-> "Home", model |-> "T6"],
      [title |-> Undefined, brand |-> "", category |-> Undefined, model |-> Undefined] }
UPCReplies ==
    Rejections \cup {Garbage, Response([items |-> <<>>])}
    \cup {Response([items |-> <<it>>]) : it \in UPCItems}

OFFProducts ==
    { [product_name |-> "Nutella", generic_name |-> Undefined, brands |-> "Ferrero", categories |-> "Spreads"],
      [product_name |-> "", generic_name |-> "Nutella", brands |-> "Ferrero", categories |-> "Spreads"] }
OFFReplies ==
    Rejections \cup {Garbage, Response([status |-> 0]), Response([status |-> 1])}
    \cup {Response([status |-> 1, product |-> p]) : p \in OFFProducts}

EANBodies ==
    { [name |-> "Towels 6pc", brand |-> Undefined, category |-> Undefined],
      [name |-> "", brand |-> "WestPoint", category |-> Undefined],
      [error |-> "not found"] }
EANReplies == Rejections \cup {Garbage} \cup {Response(b) : b \in EANBodies}

\* a reply after which the adapter's try block throws or the body is unusable
Transient(reply) == reply \in Rejections \cup {Garbage}

\* ------------------------------------------------------- source adapters
BarcodeProduct(name, brand, category, model, confidence, source) ==
    [name |-> name, brand |-> brand, category |-> category, model |-> model,
     confidence |-> confidence, source |-> source]

\* mutant: without the try/catch, a rejected call throws out of the adapter
lookupUPCItemDBThrows(reply) ==
    IF reply.kind # "response" THEN Threw
    ELSE IF Has(reply.data, "items") /\ Len(reply.data.items) > 0
    THEN LET item == reply.data.items[1]
         IN  BarcodeProduct(Or(item.title, ""), Or(item.brand, Undefined),
                            Or(item.category, Undefined), Or(item.model, Undefined),
                            "high", UPCitemdb)
    ELSE NoProduct
\* lookupUPCItemDB: the first item of the reply, null without one or on a throw
lookupUPCItemDB(reply) ==
    IF reply.kind # "response" THEN NoProduct
    ELSE IF Has(reply.data, "items") /\ Len(reply.data.items) > 0
    THEN LET item == reply.data.items[1]
         IN  BarcodeProduct(Or(item.title, ""), Or(item.brand, Undefined),
                            Or(item.category, Undefined), Or(item.model, Undefined),
                            "high", UPCitemdb)
    ELSE NoProduct

lookupOpenFoodFacts(reply) ==
    IF reply.kind # "response" THEN NoProduct
    ELSE IF Has(reply.data, "status") /\ reply.data.status = 1 /\ Has(reply.data, "product")
    THEN LET product == reply.data.product
         IN  BarcodeProduct(Or(product.product_name, Or(product.generic_name, "")),
                            Or(product.brands, Undefined),
                            Or(product.categories, Undefined), Undefined,
                            "medium", OpenFoodFacts)
    ELSE NoProduct

\* mutant: the last provider's results are tagged low
lookupEANSearchLow(reply) ==
    IF reply.kind # "response" THEN NoProduct
    ELSE IF Has(reply.data, "name") /\ ~Falsy(reply.data.name)
    THEN BarcodeProduct(Or(reply.data.name, ""), Or(reply.data.brand, Undefined),
                        Or(reply.data.category, Undefined), Undefined,
                        "low", EANSearch)
    ELSE NoProduct
lookupEANSearch(reply) ==
    IF reply.kind # "response" THEN NoProduct
    ELSE IF Has(reply.data, "name") /\ ~Falsy(reply.data.name)
    THEN BarcodeProduct(Or(reply.data.name, ""), Or(reply.data.brand, Undefined),
                        Or(reply.data.category, Undefined), Undefined,
                        "medium", EANSearch)
    ELSE NoProduct

\* ------------------------------------------------------------------ state
\* the handler runs in flight together
Reqs == {1, 2}
Instants == {0, 1} \cup {i * cacheTTL : i \in 1..MaxPeriods}

VARIABLES
    now,           \* the clock (Date.now() and the server timestamp)
    cache,         \* collection barcode_cache: document id -> document
    issued,        \* requests received so far
    pc,            \* where each handler run stands
    body,          \* req.body.barcode of the run, until cleanBarcode replaces it
    cleanBarcode,  \* const cleanBarcode
    cachedDoc,     \* the snapshot cacheRef.get() resolved with
    cacheAge,      \* const cacheAge, when the document exists
    calls,         \* adapters the run has invoked, in order
    returned,      \* what each invoked adapter returned
    faulted,       \* some adapter call of the run was rejected or unparseable
    productInfo,   \* const productInfo / let result
    writes,        \* cacheRef.set calls of the run
    response,      \* the response sent
    prior,         \* cachedAt of the fresh resolution answered before the run began
    sequel,        \* the run read the cache within the TTL of that resolution
    rivals,        \* runs that had missed the same key, and not answered, when the run missed
    storeError,    \* the cache operation of the run that was rejected, if any
    resolved,      \* per key, cachedAt of the last answered fresh resolution
    \* identifyProduct (services/productIdentification.ts)
    attempts,      \* calls of identifyProduct so far
    ipc,           \* where the call of identifyProduct stands
    image,         \* its argument image
    visionCalls,   \* calls of openai.chat.completions.create the call has made
    visionReply,   \* what that call settled with
    identified,    \* const productInfo of identifyProduct
    logResult,     \* how the add() of logProductIdentification settled
    outcome,       \* the value identifyProduct resolved with
    analytics,     \* collection product_identifications, in the order of the adds
    \* claims (api/claims.ts)
    claims,        \* collection claims: document id -> document
    drafted,       \* ids the collection has handed out
    draftAnswer,   \* the response of the last POST /draft
    stamp,         \* the server's time, as the number of writes to the collection
    claimIssued,   \* PUT and DELETE requests received so far
    cpc,           \* where each run of a PUT or DELETE handler stands
    creq,          \* its request: the method, req.user.uid, req.params.id, req.body
    claimDoc,      \* the snapshot its first claimRef.get() resolved with
    cres           \* the response it sent

reqVars == <<pc, body, cleanBarcode, cachedDoc, cacheAge, calls, returned, faulted,
             productInfo, writes, response, prior, sequel, rivals, storeError>>
lookupVars == <<now, cache, issued, reqVars, resolved>>
idVars == <<attempts, ipc, image, visionCalls, visionReply, identified, logResult,
            outcome, analytics>>
claimVars == <<claims, drafted, draftAnswer, stamp, claimIssued, cpc, creq, claimDoc, cres>>
vars == <<lookupVars, idVars, claimVars>>

NoBody == [type |-> "none"]
NoDoc == [read |-> FALSE]
NoResponse == [status |-> 0]
NoTime == 0 - 1
NoAge == 0 - 1
\* admin.firestore.FieldValue.serverTimestamp()
ServerTimestamp == "<serverTimestamp>"

Failure(status, code) == [status |-> status, success |-> FALSE, code |-> code]
Success(name, brand, category, model, confidence, cached) ==
    [status |-> 200, success |-> TRUE,
     data |-> [name |-> name, brand |-> brand, category |-> category,
               model |-> model, confidence |-> confidence, cached |-> cached]]

\* DocumentReference.get(): the snapshot of a document
Snapshot(key) ==
    IF key \in DOMAIN cache
    THEN [read |-> TRUE, exists |-> TRUE, data |-> cache[key]]
    ELSE [read |-> TRUE, exists |-> FALSE]

\* mutant: the write is lost
SetDocLost(key, data) == cache
\* mutant: the write is merged into the document, a null keeping the old field
SetDocMerge(key, data) ==
    [k \in DOMAIN cache \cup {key} |->
        IF k = key
        THEN [f \in DOMAIN data |->
                 IF data[f] = ServerTimestamp THEN now
                 ELSE IF data[f] = Null /\ key \in DOMAIN cache THEN cache[key][f]
                 ELSE data[f]]
        ELSE cache[k]]
\* mutant: a document that exists keeps the time it was first written at
SetDocKeepsStamp(key, data) ==
    [k \in DOMAIN cache \cup {key} |->
        IF k = key
        THEN [f \in DOMAIN data |->
                 IF data[f] = ServerTimestamp
                 THEN (IF key \in DOMAIN cache THEN cache[key].cachedAt ELSE now)
                 ELSE data[f]]
        ELSE cache[k]]
\* DocumentReference.set(data): the document is replaced as a whole, the
\* server putting its time in place of the serverTimestamp() sentinel
SetDoc(key, data) ==
    [k \in DOMAIN cache \cup {key} |->
        IF k = key
        THEN [f \in DOMAIN data |-> IF data[f] = ServerTimestamp THEN now ELSE data[f]]
        ELSE cache[k]]

\* the document the handler passes to cacheRef.set
CacheEntry(key, p) ==
    [barcode |-> key, name |-> p.name, brand |-> Or(p.brand, Null),
     category |-> Or(p.category, Null), model |-> Or(p.model, Null),
     confidence |-> p.confidence, source |-> p.source, cachedAt |-> ServerTimestamp]

\* Date.now() - cachedData.cachedAt.toMillis()
CacheAge(doc) == IF doc.exists THEN now - doc.data.cachedAt ELSE NoAge
\* mutant: the age is compared with the number of days
IsFreshDays(doc) == doc.exists /\ CacheAge(doc) < BARCODE_CACHE_TTL_DAYS
\* mutant: an entry of exactly the TTL is still served
IsFreshInclusive(doc) == doc.exists /\ CacheAge(doc) <= cacheTTL
\* cachedDoc.exists and cacheAge < cacheTTL
IsFresh(doc) == doc.exists /\ CacheAge(doc) < cacheTTL

NoImage == <<"<none>">>
NoReply == [kind |-> "none"]
NoOutcome == [settled |-> FALSE]

\* no call of identifyProduct is under way
IdIdle ==
    /\ ipc = "idle"
    /\ image = NoImage
    /\ visionCalls = 0
    /\ visionReply = NoReply
    /\ identified = NoProduct
    /\ logResult = "none"
    /\ outcome = NoOutcome

\* =================================================== claims (api/claims.ts)
Owner == "user-1"
Other == "user-2"
Users == {Owner, Other}

\* collections products and warranties: the owner of each document
ProductOwner == [p \in {"product-1", "product-2"} |->
                     IF p = "product-1" THEN Owner ELSE Other]
WarrantyOwner == [w \in {"warranty-1", "warranty-2"} |->
                      IF w = "warranty-1" THEN Owner ELSE Other]
ProductIds == DOMAIN ProductOwner \cup {"product-0"}
\* warrantyId: absent or '', an own, a foreign and a missing warranty
WarrantyIds == DOMAIN WarrantyOwner \cup {"", "warranty-0"}

\* schemas.updateClaim
ClaimStatuses == {"draft", "submitted", "approved", "paid", "denied"}
Closed == {"paid", "denied"}
\* req.body of a PUT that passed validate(schemas.updateClaim)
UpdateBodies ==
    {[claimStatus |-> s] : s \in ClaimStatuses} \cup {[notes |-> "called the shop"]}

\* the ids the collection hands out, in order
ClaimIds == 1..MaxDrafts
ClaimReqs == {1, 2}

NoRequest == [op |-> "none"]
NoSnapshot == [read |-> FALSE]
NoAnswer == [status |-> 0]

ClaimIdle ==
    /\ claims = <<>>
    /\ drafted = 0
    /\ draftAnswer = NoAnswer
    /\ stamp = 0
    /\ claimIssued = 0
    /\ cpc = [r \in ClaimReqs |-> "idle"]
    /\ creq = [r \in ClaimReqs |-> NoRequest]
    /\ claimDoc = [r \in ClaimReqs |-> NoSnapshot]
    /\ cres = [r \in ClaimReqs |-> NoAnswer]

Init ==
    /\ now = 0
    /\ cache = <<>>
    /\ issued = 0
    /\ pc = [r \in Reqs |-> "idle"]
    /\ body = [r \in Reqs |-> NoBody]
    /\ cleanBarcode = [r \in Reqs |-> <<>>]
    /\ cachedDoc = [r \in Reqs |-> NoDoc]
    /\ cacheAge = [r \in Reqs |-> NoAge]
    /\ calls = [r \in Reqs |-> <<>>]
    /\ returned = [r \in Reqs |-> <<>>]
    /\ faulted = [r \in Reqs |-> FALSE]
    /\ productInfo = [r \in Reqs |-> NoProduct]
    /\ writes = [r \in Reqs |-> <<>>]
    /\ response = [r \in Reqs |-> NoResponse]
    /\ prior = [r \in Reqs |-> NoTime]
    /\ sequel = [r \in Reqs |-> FALSE]
    /\ rivals = [r \in Reqs |-> {}]
    /\ storeError = [r \in Reqs |-> "none"]
    /\ resolved = <<>>
    /\ attempts = 0
    /\ analytics = <<>>
    /\ IdIdle
    /\ ClaimIdle

\* res.status(..).json(..): the run ends
Respond(r, resp) ==
    /\ response' = [response EXCEPT ![r] = resp]
    /\ pc' = [pc EXCEPT ![r] = "done"]

\* !barcode || typeof barcode !== 'string'
InvalidBarcode(b) == b.type # "string" \/ b.str = <<>>
\* mutant: the bounds are off by one
InvalidLengthLoose(clean) == Len(clean) < MinBarcodeLen - 1 \/ Len(clean) > MaxBarcodeLen + 1
\* cleanBarcode.length < 8 || cleanBarcode.length > 14
InvalidLength(clean) == Len(clean) < MinBarcodeLen \/ Len(clean) > MaxBarcodeLen

\* router.post('/lookup-barcode'): validation, up to the call of cacheRef.get()
Request(r, b) ==
    /\ pc[r] = "idle"
    /\ \A q \in Reqs : q < r => pc[q] # "idle"
    /\ issued < MaxLookups
    /\ issued' = issued + 1
    /\ body' = [body EXCEPT ![r] = b]
    /\ IF InvalidBarcode(b)
       THEN /\ Respond(r, Failure(400, "INVALID_BARCODE"))
            /\ UNCHANGED <<cleanBarcode, prior>>
       ELSE LET clean == Sanitize(b.str)
            IN  /\ cleanBarcode' = [cleanBarcode EXCEPT ![r] = clean]
                /\ IF InvalidLength(clean)
                   THEN /\ Respond(r, Failure(400, "INVALID_BARCODE_LENGTH"))
                        /\ UNCHANGED prior
                   ELSE /\ pc' = [pc EXCEPT ![r] = "get"]
                        /\ prior' = [prior EXCEPT ![r] =
                               IF clean \in DOMAIN resolved THEN resolved[clean] ELSE NoTime]
                        /\ UNCHANGED response
    /\ UNCHANGED <<now, cache, cachedDoc, cacheAge, calls, returned, faulted,
                   productInfo, writes, sequel, rivals, storeError, resolved, idVars, claimVars>>

\* cacheRef.get() resolves: cache hit, or the fallback chain starts
CacheGet(r) ==
    /\ pc[r] = "get"
    /\ LET doc == Snapshot(cleanBarcode[r])
       IN  /\ cachedDoc' = [cachedDoc EXCEPT ![r] = doc]
           /\ cacheAge' = [cacheAge EXCEPT ![r] = CacheAge(doc)]
           /\ sequel' = [sequel EXCEPT ![r] = prior[r] # NoTime /\ now - prior[r] < cacheTTL]
           /\ prior' = [prior EXCEPT ![r] = NoTime]
           /\ body' = [body EXCEPT ![r] = NoBody]
           /\ IF IsFresh(doc)
              THEN /\ Respond(r, Success(doc.data.name, doc.data.brand, doc.data.category,
                                         doc.data.model, doc.data.confidence, TRUE))
                   /\ UNCHANGED <<calls, rivals>>
              ELSE /\ pc' = [pc EXCEPT ![r] = "upc"]
                   /\ calls' = [calls EXCEPT ![r] = <<UPCitemdb>>]
                   /\ rivals' = [rivals EXCEPT ![r] =
                          {q \in Reqs \ {r} : /\ pc[q] \in {"upc", "off", "ean", "set"}
                                               /\ cleanBarcode[q] = cleanBarcode[r]}]
                   /\ UNCHANGED response
    /\ UNCHANGED <<now, issued, cache, cleanBarcode, returned, faulted,
                   productInfo, writes, storeError, resolved, idVars, claimVars>>

\* what every adapter return records
Returns(r, reply, res) ==
    /\ returned' = [returned EXCEPT ![r] = Append(@, res)]
    /\ faulted' = [faulted EXCEPT ![r] = @ \/ Transient(reply)]
    /\ UNCHANGED <<now, issued, body, cleanBarcode, cachedDoc, cacheAge,
                   writes, prior, sequel, rivals, storeError, resolved, idVars, claimVars>>

\* the handler's catch block
Catch(r) ==
    /\ Respond(r, Failure(500, "LOOKUP_FAILED"))
    /\ UNCHANGED <<cache, calls, productInfo>>

\* if (result) return result: the chain stops and cacheRef.set() is called
Found(r, res) ==
    /\ productInfo' = [productInfo EXCEPT ![r] = res]
    /\ pc' = [pc EXCEPT ![r] = "set"]
    /\ UNCHANGED <<cache, calls, response>>

\* the chain goes on with the next adapter
Fallback(r, label, adapter) ==
    /\ pc' = [pc EXCEPT ![r] = label]
    /\ calls' = [calls EXCEPT ![r] = Append(@, adapter)]
    /\ UNCHANGED <<cache, productInfo, response>>

\* mutant: the entry of a barcode that is not found is deleted
NotFoundEvicts(r) ==
    /\ Respond(r, Failure(404, "BARCODE_NOT_FOUND"))
    /\ cache' = [k \in DOMAIN cache \ {cleanBarcode[r]} |-> cache[k]]
    /\ UNCHANGED <<calls, productInfo>>
\* mutant: the miss is remembered in the cache
NotFoundCachesMiss(r) ==
    /\ Respond(r, Failure(404, "BARCODE_NOT_FOUND"))
    /\ cache' = SetDoc(cleanBarcode[r],
                       [barcode |-> cleanBarcode[r], name |-> Null, brand |-> Null,
                        category |-> Null, model |-> Null, confidence |-> "low",
                        source |-> Null, cachedAt |-> ServerTimestamp])
    /\ UNCHANGED <<calls, productInfo>>
\* mutant: the chain is tried again when no provider matched
NotFoundRetries(r) ==
    /\ pc' = [pc EXCEPT ![r] = "upc"]
    /\ calls' = [calls EXCEPT ![r] = Append(@, UPCitemdb)]
    /\ UNCHANGED <<cache, productInfo, response>>
\* if (!productInfo): 404
NotFound(r) ==
    /\ Respond(r, Failure(404, "BARCODE_NOT_FOUND"))
    /\ UNCHANGED <<cache, calls, productInfo>>

\* mutant: the chain goes on after UPCitemdb has returned a product
UPCReturnKeepsLooking(r, reply) ==
    /\ pc[r] = "upc"
    /\ LET res == lookupUPCItemDB(reply)
       IN  /\ Returns(r, reply, res)
           /\ IF res = Threw THEN Catch(r)
              ELSE IF res # NoProduct
              THEN /\ productInfo' = [productInfo EXCEPT ![r] = res]
                   /\ pc' = [pc EXCEPT ![r] = "off"]
                   /\ calls' = [calls EXCEPT ![r] = Append(@, OpenFoodFacts)]
                   /\ UNCHANGED <<cache, response>>
              ELSE Fallback(r, "off", OpenFoodFacts)

\* lookupUPCItemDB settles
UPCReturn(r, reply) ==
    /\ pc[r] = "upc"
    /\ LET res == lookupUPCItemDB(reply)
       IN  /\ Returns(r, reply, res)
           /\ IF res = Threw THEN Catch(r)
              ELSE IF res # NoProduct THEN Found(r, res)
              ELSE Fallback(r, "off", OpenFoodFacts)

\* lookupOpenFoodFacts settles
OFFReturn(r, reply) ==
    /\ pc[r] = "off"
    /\ LET res == lookupOpenFoodFacts(reply)
       IN  /\ Returns(r, reply, res)
           /\ IF res = Threw THEN Catch(r)
              ELSE IF res # NoProduct THEN Found(r, res)
              ELSE Fallback(r, "ean", EANSearch)

\* lookupEANSearch settles
EANReturn(r, reply) ==
    /\ pc[r] = "ean"
    /\ LET res == lookupEANSearch(reply)
       IN  /\ Returns(r, reply, res)
           /\ IF res = Threw THEN Catch(r)
              ELSE IF res # NoProduct THEN Found(r, res)
              ELSE NotFound(r)

\* cacheRef.set() resolves and the fresh result is sent
CacheSet(r) ==
    /\ pc[r] = "set"
    /\ LET p == productInfo[r]
           key == cleanBarcode[r]
           entry == CacheEntry(key, p)
       IN  /\ cache' = SetDoc(key, entry)
           /\ writes' = [writes EXCEPT ![r] = Append(@, [key |-> key, data |-> entry])]
           /\ resolved' = [k \in DOMAIN resolved \cup {key} |->
                              IF k = key THEN now ELSE resolved[k]]
           /\ Respond(r, Success(p.name, p.brand, p.category, p.model, p.confidence, FALSE))
    /\ UNCHANGED <<now, issued, body, cleanBarcode, cachedDoc, cacheAge, calls, returned,
                   faulted, productInfo, prior, sequel, rivals, storeError, idVars, claimVars>>

\* the run is over: its slot is free for the next request
Finish(r) ==
    /\ pc[r] = "done"
    /\ pc' = [pc EXCEPT ![r] = "idle"]
    /\ body' = [body EXCEPT ![r] = NoBody]
    /\ cleanBarcode' = [cleanBarcode EXCEPT ![r] = <<>>]
    /\ cachedDoc' = [cachedDoc EXCEPT ![r] = NoDoc]
    /\ cacheAge' = [cacheAge EXCEPT ![r] = NoAge]
    /\ calls' = [calls EXCEPT ![r] = <<>>]
    /\ returned' = [returned EXCEPT ![r] = <<>>]
    /\ faulted' = [faulted EXCEPT ![r] = FALSE]
    /\ productInfo' = [productInfo EXCEPT ![r] = NoProduct]
    /\ writes' = [writes EXCEPT ![r] = <<>>]
    /\ response' = [response EXCEPT ![r] = NoResponse]
    /\ sequel' = [sequel EXCEPT ![r] = FALSE]
    /\ rivals' = [q \in Reqs |-> IF q = r THEN {} ELSE rivals[q] \ {r}]
    /\ storeError' = [storeError EXCEPT ![r] = "none"]
    /\ UNCHANGED <<now, cache, issued, prior, resolved, idVars, claimVars>>

\* time passes
Tick ==
    /\ \E t \in Instants : t > now /\ now' = t
    /\ UNCHANGED <<cache, issued, reqVars, resolved, idVars, claimVars>>

Next ==
    \/ \E r \in Reqs : \E b \in Bodies : Request(r, b)
    \/ \E r \in Reqs : CacheGet(r)
    \/ \E r \in Reqs : \E reply \in UPCReplies : UPCReturn(r, reply)
    \/ \E r \in Reqs : \E reply \in OFFReplies : OFFReturn(r, reply)
    \/ \E r \in Reqs : \E reply \in EANReplies : EANReturn(r, reply)
    \/ \E r \in Reqs : CacheSet(r)
    \/ \E r \in Reqs : Finish(r)
    \/ Tick

Spec == Init /\ [][Next]_vars

\* ------------------------------------------------- the cache store fails
\* await cacheRef.get() rejects: the handler's catch block answers
CacheGetThrows(r) ==
    /\ pc[r] = "get"
    /\ storeError' = [storeError EXCEPT ![r] = "get"]
    /\ prior' = [prior EXCEPT ![r] = NoTime]
    /\ body' = [body EXCEPT ![r] = NoBody]
    /\ Catch(r)
    /\ UNCHANGED <<now, issued, cleanBarcode, cachedDoc, cacheAge, returned, faulted,
                   writes, sequel, rivals, resolved, idVars, claimVars>>

\* mutant: a rejected write is ignored and the product is sent
CacheSetRejectedSwallowed(r, p) ==
    Respond(r, Success(p.name, p.brand, p.category, p.model, p.confidence, FALSE))
\* the await of a rejected cacheRef.set() throws into the catch block
CacheSetRejected(r, p) == Respond(r, Failure(500, "LOOKUP_FAILED"))

\* await cacheRef.set() rejects.  The store may have applied the write before
\* the rejection reached the handler (a deadline that passed, a lost
\* acknowledgement) or not at all.
CacheSetThrows(r, applied) ==
    /\ pc[r] = "set"
    /\ LET key == cleanBarcode[r]
           entry == CacheEntry(key, productInfo[r])
       IN  /\ cache' = IF applied THEN SetDoc(key, entry) ELSE cache
           /\ writes' = [writes EXCEPT ![r] = Append(@, [key |-> key, data |-> entry])]
    /\ storeError' = [storeError EXCEPT ![r] = "set"]
    /\ CacheSetRejected(r, productInfo[r])
    /\ UNCHANGED <<now, issued, body, cleanBarcode, cachedDoc, cacheAge, calls, returned,
                   faulted, productInfo, prior, sequel, rivals, resolved, idVars, claimVars>>

\* a whole TTL passes between two requests: every entry of the cache is stale
Expire ==
    /\ \A r \in Reqs : pc[r] = "idle"
    /\ now + cacheTTL \in Instants
    /\ now' = now + cacheTTL
    /\ UNCHANGED <<cache, issued, reqVars, resolved, idVars, claimVars>>

\* the requests that reach the cache: the bodies that pass the validation
StoreBodies == {b \in Bodies : ~InvalidBarcode(b) /\ ~InvalidLength(Sanitize(b.str))}

StoreNext ==
    \/ \E r \in Reqs : \E b \in StoreBodies : Request(r, b)
    \/ \E r \in Reqs : CacheGet(r)
    \/ \E r \in Reqs : \E reply \in UPCReplies : UPCReturn(r, reply)
    \/ \E r \in Reqs : \E reply \in OFFReplies : OFFReturn(r, reply)
    \/ \E r \in Reqs : \E reply \in EANReplies : EANReturn(r, reply)
    \/ \E r \in Reqs : CacheSet(r)
    \/ \E r \in Reqs : Finish(r)
    \/ Expire
    \/ \E r \in Reqs : CacheGetThrows(r)
    \/ \E r \in Reqs : \E applied \in BOOLEAN : CacheSetThrows(r, applied)

StoreSpec == Init /\ [][StoreNext]_vars

\* ------------------------------------------------- every operation completes
\* The steps of the handler without the clock: each await of the handler
\* settles (an axios.get at the latest when its 5 s timeout rejects it, a
\* cache operation by resolving or rejecting).  A rejected write is taken as
\* not applied: the run that lost it ends the same way in both cases.
LiveNext ==
    \/ \E r \in Reqs : \E b \in Bodies : Request(r, b)
    \/ \E r \in Reqs : CacheGet(r)
    \/ \E r \in Reqs : \E reply \in UPCReplies : UPCReturn(r, reply)
    \/ \E r \in Reqs : \E reply \in OFFReplies : OFFReturn(r, reply)
    \/ \E r \in Reqs : \E reply \in EANReplies : EANReturn(r, reply)
    \/ \E r \in Reqs : CacheSet(r)
    \/ \E r \in Reqs : Finish(r)
    \/ \E r \in Reqs : CacheGetThrows(r)
    \/ \E r \in Reqs : CacheSetThrows(r, FALSE)

\* the await the run stands at settles
Settles(r) ==
    \/ CacheGet(r) \/ CacheGetThrows(r)
    \/ \E reply \in UPCReplies : UPCReturn(r, reply)
    \/ \E reply \in OFFReplies : OFFReturn(r, reply)
    \/ \E reply \in EANReplies : EANReturn(r, reply)
    \/ CacheSet(r) \/ CacheSetThrows(r, FALSE)

Completes == \A r \in Reqs : WF_vars(Settles(r))

LiveSpec == Init /\ [][LiveNext]_vars /\ Completes

\* ======================================================= identifyProduct
\* ---------------------------------------------------------------- strings
\* A string is the sequence of its characters.
Lowercase == <<"a", "b", "c", "d", "e", "f", "g", "h", "i", "j", "k", "l", "m", "n", "o", "p", "q", "r", "s", "t", "u", "v", "w", "x", "y", "z">>
Uppercase == <<"A", "B", "C", "D", "E", "F", "G", "H", "I", "J", "K", "L", "M", "N", "O", "P", "Q", "R", "S", "T", "U", "V", "W", "X", "Y", "Z">>
Letters == {Lowercase[i] : i \in 1..26} \cup {Uppercase[i] : i \in 1..26}
\* \s of the regular expressions, on the characters of the inputs
Spaces == {" ", "\t", "\n"}
\* String.prototype.startsWith
StartsWith(s, prefix) == Len(s) >= Len(prefix) /\ SubSeq(s, 1, Len(prefix)) = prefix
\* the places where sub occurs in s
Occurrences(s, sub) ==
    {i \in 1..(Len(s) - Len(sub) + 1) : SubSeq(s, i, i + Len(sub) - 1) = sub}
\* String.prototype.includes
Includes(s, sub) == Occurrences(s, sub) # {}
Min(set) == CHOOSE i \in set : \A j \in set : i <= j
\* String.prototype.toLowerCase
toLowerCase(s) ==
    [i \in 1..Len(s) |->
        IF \E j \in 1..26 : Uppercase[j] = s[i]
        THEN Lowercase[CHOOSE j \in 1..26 : Uppercase[j] = s[i]]
        ELSE s[i]]
\* s.split(sep)[1]: what stands between the first sep and the next one
SplitSecond(s, sep) ==
    LET first == Min(Occurrences(s, sep))
        rest == SubSeq(s, first + Len(sep), Len(s))
    IN  IF Includes(rest, sep) THEN SubSeq(rest, 1, Min(Occurrences(rest, sep)) - 1)
        ELSE rest
Repeat(c, n) == [i \in 1..n |-> c]

\* ----------------------------------------------------------- validateImage
\* base64Data.length < 100
MinImageLen == 100
Base64Chars == Letters \cup {Digits[i] : i \in 1..10} \cup {"+", "/"}
\* [A-Za-z0-9+/]+={0,2}
IsBase64(b) ==
    \E pad \in 0..2 :
        /\ Len(b) > pad
        /\ \A i \in 1..Len(b) :
              IF i > Len(b) - pad THEN b[i] = "=" ELSE b[i] \in Base64Chars
\* data:image\/[a-z]+;base64, at the head of s: the places where it can end
DataPrefixEnds(s) ==
    {e \in 1..Len(s) :
        /\ StartsWith(s, <<"d", "a", "t", "a", ":", "i", "m", "a", "g", "e", "/">>)
        /\ \E t \in 12..Len(s) :
              /\ \A i \in 12..t : \E j \in 1..26 : Lowercase[j] = s[i]
              /\ SubSeq(s, t + 1, t + 8) = <<";", "b", "a", "s", "e", "6", "4", ",">>
              /\ e = t + 8}
\* base64Pattern.test(s)
MatchesBase64Pattern(s) ==
    \/ IsBase64(s)
    \/ \E e \in DataPrefixEnds(s) : IsBase64(SubSeq(s, e + 1, Len(s)))
\* new URL(image) does not throw, for an image that starts with http:// or
\* https://: the host, which ends at the first slash, is not empty and has no
\* forbidden character
ForbiddenInHost == {" ", "<", ">", "^", "|"}
ParsesAsURL(url) ==
    LET start == Min(Occurrences(url, <<":", "/", "/">>)) + 3
        slashes == {i \in start..Len(url) : url[i] = "/"}
        stop == IF slashes = {} THEN Len(url) ELSE Min(slashes) - 1
    IN  /\ stop >= start
        /\ \A i \in start..stop : url[i] \notin ForbiddenInHost
Valid == [isValid |-> TRUE]
Invalid(code) == [isValid |-> FALSE, error |-> [code |-> code]]
\* mutant: the size is checked before the format
validateImageSizeFirst(img) ==
    IF StartsWith(img, <<"h", "t", "t", "p", ":", "/", "/">>) \/ StartsWith(img, <<"h", "t", "t", "p", "s", ":", "/", "/">>)
    THEN (IF ParsesAsURL(img) THEN Valid ELSE Invalid("INVALID_IMAGE_URL"))
    ELSE IF Len(IF Includes(img, <<"b", "a", "s", "e", "6", "4", ",">>) THEN SplitSecond(img, <<"b", "a", "s", "e", "6", "4", ",">>) ELSE img)
            < MinImageLen
    THEN Invalid("IMAGE_TOO_SMALL")
    ELSE IF ~MatchesBase64Pattern(SelectSeq(img, LAMBDA c : c \notin Spaces))
    THEN Invalid("INVALID_IMAGE_FORMAT")
    ELSE Valid
validateImage(img) ==
    IF StartsWith(img, <<"h", "t", "t", "p", ":", "/", "/">>) \/ StartsWith(img, <<"h", "t", "t", "p", "s", ":", "/", "/">>)
    THEN (IF ParsesAsURL(img) THEN Valid ELSE Invalid("INVALID_IMAGE_URL"))
    ELSE IF ~MatchesBase64Pattern(SelectSeq(img, LAMBDA c : c \notin Spaces))
    THEN Invalid("INVALID_IMAGE_FORMAT")
    ELSE LET base64Data == IF Includes(img, <<"b", "a", "s", "e", "6", "4", ",">>)
                           THEN SplitSecond(img, <<"b", "a", "s", "e", "6", "4", ",">>) ELSE img
         IN  IF Len(base64Data) < MinImageLen THEN Invalid("IMAGE_TOO_SMALL") ELSE Valid

\* the images given to identifyProduct
PngPrefix == <<"d", "a", "t", "a", ":", "i", "m", "a", "g", "e", "/", "p", "n", "g", ";", "b", "a", "s", "e", "6", "4", ",">>
Images ==
    { <<"h", "t", "t", "p", "s", ":", "/", "/", "x", ".", "i", "o", "/", "a", ".", "j", "p", "g">>,
      <<"h", "t", "t", "p", ":", "/", "/">>,
      <<"h", "t", "t", "p", "s", ":", "/", "/", "x", " ", "y", "/", "a", ".", "j", "p", "g">>,
      <<"i", "n", "v", "a", "l", "i", "d", "-", "i", "m", "a", "g", "e">>,
      <<"a", "b", "c", "1", "2", "3">>,
      Repeat("A", MinImageLen - 1),
      Repeat("A", MinImageLen),
      Repeat("A", MinImageLen - 1) \o <<"\n">>,
      PngPrefix \o Repeat("A", MinImageLen - 1),
      PngPrefix \o Repeat("A", MinImageLen - 2) \o <<"=", "=">> }

\* --------------------------------------------------------- suggestWarranty
KwApple == <<"a", "p", "p", "l", "e">>
KwSamsung == <<"s", "a", "m", "s", "u", "n", "g">>
Electronics == <<<<"e", "l", "e", "c", "t", "r", "o", "n", "i", "c">>, <<"c", "o", "m", "p", "u", "t", "e", "r">>, <<"p", "h", "o", "n", "e">>, <<"t", "a", "b", "l", "e", "t">>, <<"l", "a", "p", "t", "o", "p">>>>
Appliances == <<<<"a", "p", "p", "l", "i", "a", "n", "c", "e">>, <<"r", "e", "f", "r", "i", "g", "e", "r", "a", "t", "o", "r">>, <<"w", "a", "s", "h", "e", "r">>, <<"d", "r", "y", "e", "r">>, <<"d", "i", "s", "h", "w", "a", "s", "h", "e", "r">>, <<"o", "v", "e", "n">>>>
KwFurniture == <<"f", "u", "r", "n", "i", "t", "u", "r", "e">>
Clothing == <<<<"c", "l", "o", "t", "h", "i", "n", "g">>, <<"a", "p", "p", "a", "r", "e", "l">>, <<"s", "h", "o", "e", "s">>>>
\* categoryLower.includes(k) for one of the keywords
IncludesAny(s, keywords) == \E i \in 1..Len(keywords) : Includes(s, keywords[i])
\* an optional string that is absent, and one that is null
Absent == <<"<undefined>">>
NullStr == <<"<null>">>
\* x?.toLowerCase() || ''
LowerOrEmpty(x) == IF x = Absent THEN <<>> ELSE toLowerCase(x)
\* mutant: the category rules come before the brand rules
suggestWarrantyCategoryFirst(brand, category) ==
    LET brandLower == LowerOrEmpty(brand)
        categoryLower == LowerOrEmpty(category)
    IN  IF IncludesAny(categoryLower, Electronics) THEN "1-2 years (manufacturer standard)"
        ELSE IF IncludesAny(categoryLower, Appliances) THEN "2-5 years (varies by type)"
        ELSE IF Includes(categoryLower, KwFurniture) THEN "1-3 years (varies by manufacturer)"
        ELSE IF IncludesAny(categoryLower, Clothing) THEN "30-90 days (return policy varies)"
        ELSE IF Includes(brandLower, KwApple) THEN "1 year (Apple standard warranty)"
        ELSE IF Includes(brandLower, KwSamsung) THEN "1 year (Samsung standard warranty)"
        ELSE "Check manufacturer website"
suggestWarranty(brand, category) ==
    LET brandLower == LowerOrEmpty(brand)
        categoryLower == LowerOrEmpty(category)
    IN  IF Includes(brandLower, KwApple) THEN "1 year (Apple standard warranty)"
        ELSE IF Includes(brandLower, KwSamsung) THEN "1 year (Samsung standard warranty)"
        ELSE IF IncludesAny(categoryLower, Electronics) THEN "1-2 years (manufacturer standard)"
        ELSE IF IncludesAny(categoryLower, Appliances) THEN "2-5 years (varies by type)"
        ELSE IF Includes(categoryLower, KwFurniture) THEN "1-3 years (varies by manufacturer)"
        ELSE IF IncludesAny(categoryLower, Clothing) THEN "30-90 days (return policy varies)"
        ELSE "Check manufacturer website"

\* ------------------------------------------------------ the vision model
\* An absent member of the parsed JSON is Absent; a string is the sequence of
\* its characters; confidence, a number, is in hundredths.
Num(n) == [num |-> n]
Json(name, brand, category, confidence) ==
    [name |-> name, brand |-> brand, category |-> category, model |-> Absent,
     color |-> Absent, confidence |-> confidence]
Objects ==
    { Json(<<"M", "a", "c", "B", "o", "o", "k", " ", "P", "r", "o">>, <<"A", "p", "p", "l", "e">>, <<"L", "a", "p", "t", "o", "p", "s">>, Num(95)),
      Json(<<"M", "a", "c", "B", "o", "o", "k", " ", "P", "r", "o">>, <<"A", "p", "p", "l", "e">>, <<"L", "a", "p", "t", "o", "p", "s">>, Num(70)),
      Json(<<"M", "a", "c", "B", "o", "o", "k", " ", "P", "r", "o">>, <<"A", "p", "p", "l", "e">>, <<"L", "a", "p", "t", "o", "p", "s">>, Num(69)),
      Json(<<"G", "a", "l", "a", "x", "y", " ", "S", "2", "4">>, <<"S", "A", "M", "S", "U", "N", "G", " ", "E", "l", "e", "c", "t", "r", "o", "n", "i", "c", "s">>, <<"S", "m", "a", "r", "t", "p", "h", "o", "n", "e", "s">>, Num(95)),
      Json(<<"F", "r", "u", "i", "t", " ", "b", "o", "w", "l">>, <<"P", "i", "n", "e", "a", "p", "p", "l", "e", " ", "&", " ", "C", "o">>, <<"F", "u", "r", "n", "i", "t", "u", "r", "e">>, Num(95)),
      Json(<<"D", "o", "c", "k">>, <<"S", "a", "m", "s", "u", "n", "g", " ", "f", "o", "r", " ", "A", "p", "p", "l", "e">>, Absent, Num(95)),
      Json(<<"T", "h", "i", "n", "k", "P", "a", "d">>, <<"L", "e", "n", "o", "v", "o">>, <<"C", "o", "m", "p", "u", "t", "e", "r", "s", " ", "&", " ", "T", "a", "b", "l", "e", "t", "s">>, Num(95)),
      Json(<<"S", "m", "a", "r", "t", " ", "o", "v", "e", "n">>, Absent, <<"O", "v", "e", "n", " ", "e", "l", "e", "c", "t", "r", "o", "n", "i", "c", "s">>, Num(95)),
      Json(<<"F", "r", "i", "d", "g", "e">>, <<"B", "o", "s", "c", "h">>, <<"K", "i", "t", "c", "h", "e", "n", " ", "A", "p", "p", "l", "i", "a", "n", "c", "e", "s", " ", "a", "n", "d", " ", "F", "u", "r", "n", "i", "t", "u", "r", "e">>, Num(95)),
      Json(<<"S", "o", "f", "a">>, <<"I", "k", "e", "a">>, <<"F", "U", "R", "N", "I", "T", "U", "R", "E", ",", " ", "s", "h", "o", "e", "s", " ", "r", "a", "c", "k">>, Num(95)),
      Json(<<"S", "n", "e", "a", "k", "e", "r", "s">>, <<"N", "i", "k", "e">>, <<"S", "h", "o", "e", "s">>, Num(95)),
      Json(<<"T", "h", "i", "n", "g">>, <<"U", "n", "k", "n", "o", "w", "n", " ", "C", "o", "r", "p">>, <<"M", "i", "s", "c", "e", "l", "l", "a", "n", "e", "o", "u", "s">>, Num(95)),
      Json(<<"W", "i", "d", "g", "e", "t">>, Absent, Absent, Num(95)),
      Json(<<"N", "o", " ", "p", "r", "o", "d", "u", "c", "t", " ", "d", "e", "t", "e", "c", "t", "e", "d">>, Absent, Absent, Num(0)),
      Json(<<"N", "o", " ", "P", "r", "o", "d", "u", "c", "t", " ", "v", "i", "s", "i", "b", "l", "e">>, Absent, Absent, Num(90)),
      Json(Absent, <<"A", "p", "p", "l", "e">>, <<"L", "a", "p", "t", "o", "p", "s">>, Num(95)),
      Json(<<"M", "a", "c", "B", "o", "o", "k", " ", "P", "r", "o">>, <<"A", "p", "p", "l", "e">>, <<"L", "a", "p", "t", "o", "p", "s">>, Num(150)),
      Json(<<"M", "a", "c", "B", "o", "o", "k", " ", "P", "r", "o">>, <<"A", "p", "p", "l", "e">>, <<"L", "a", "p", "t", "o", "p", "s">>, Num(0 - 10)),
      Json(<<"M", "a", "c", "B", "o", "o", "k", " ", "P", "r", "o">>, <<"A", "p", "p", "l", "e">>, <<"L", "a", "p", "t", "o", "p", "s">>, [str |-> "high"]) }
\* response.choices[0]?.message?.content: nothing, a text without braces, a
\* text whose braces hold no JSON, or a text whose braces hold a JSON object
Contents ==
    {[form |-> "empty"], [form |-> "prose"], [form |-> "broken"]}
    \cup {[form |-> "json", parsed |-> o] : o \in Objects}
\* the codes of the errors openai.chat.completions.create rejects with
ErrorCodes == {"rate_limit_exceeded", "insufficient_quota", "invalid_image_url",
               "server_error", Undefined}
VisionReplies ==
    {[kind |-> "error", code |-> c] : c \in ErrorCodes}
    \cup {[kind |-> "response", content |-> c] : c \in Contents}

\* x || undefined, for a member that is absent or a string
OrUndefined(x) == IF x = Absent \/ x = <<>> THEN Absent ELSE x
\* x || null
OrNullStr(x) == IF x = Absent \/ x = <<>> THEN NullStr ELSE x
\* parseGPTResponse: null without a JSON object, without a name or without a
\* numeric confidence
parseGPTResponse(content) ==
    IF content.form /= "json" THEN NoProduct
    ELSE LET parsed == content.parsed
         IN  IF parsed.name = Absent \/ parsed.name = <<>>
                \/ "num" \notin DOMAIN parsed.confidence
             THEN NoProduct
             ELSE [name |-> parsed.name, brand |-> OrUndefined(parsed.brand),
                   category |-> OrUndefined(parsed.category),
                   model |-> OrUndefined(parsed.model),
                   color |-> OrUndefined(parsed.color),
                   estimatedYear |-> Undefined,
                   confidence |-> parsed.confidence.num]
\* prepareImageForGPT
prepareImageForGPT(img) ==
    IF StartsWith(img, <<"h", "t", "t", "p", ":", "/", "/">>) \/ StartsWith(img, <<"h", "t", "t", "p", "s", ":", "/", "/">>) THEN img
    ELSE IF StartsWith(img, <<"d", "a", "t", "a", ":", "i", "m", "a", "g", "e", "/">>) THEN img
    ELSE <<"d", "a", "t", "a", ":", "i", "m", "a", "g", "e", "/", "j", "p", "e", "g", ";", "b", "a", "s", "e", "6", "4", ",">> \o img
\* productInfo.confidence < 0.7, in hundredths
ConfidenceThreshold == 70
KwNoProduct == <<"n", "o", " ", "p", "r", "o", "d", "u", "c", "t">>
UserId == "test-user-123"

\* --------------------------------------------------------- identifyProduct
Failed(code) == [settled |-> TRUE, success |-> FALSE, error |-> [code |-> code]]
Succeeded(result) == [settled |-> TRUE, success |-> TRUE, result |-> result]

\* mutant: a confidence of exactly the threshold is rejected too
BelowThresholdInclusive(confidence) == confidence <= ConfidenceThreshold
\* mutant: the threshold is one half
BelowThresholdHalf(confidence) == confidence < 50
\* productInfo.confidence < 0.7
BelowThreshold(confidence) == confidence < ConfidenceThreshold

\* the catch block of identifyProduct
CatchCode(code) ==
    IF code = "rate_limit_exceeded" THEN "RATE_LIMIT"
    ELSE IF code = "invalid_image_url" THEN "INVALID_IMAGE"
    ELSE "IDENTIFICATION_FAILED"

\* the document logProductIdentification adds
LogRecord(userId, result) ==
    [userId |-> userId, productName |-> result.name, brand |-> OrNullStr(result.brand),
     category |-> OrNullStr(result.category), model |-> OrNullStr(result.model),
     color |-> OrNullStr(result.color), estimatedYear |-> Null,
     confidence |-> result.confidence,
     suggestedWarranty |-> result.suggestedWarranty, timestamp |-> ServerTimestamp]

\* mutant: a rejected add() is thrown on to the catch block of identifyProduct
AfterLogThrows(ok, result) ==
    IF ok THEN Succeeded(result) ELSE Failed("IDENTIFICATION_FAILED")
\* what identifyProduct resolves with once add() has settled: the catch of
\* logProductIdentification keeps a rejection to itself
AfterLog(ok, result) == Succeeded(result)

\* mutant: the record is added a second time
AddedTwice(ok, record) == IF ok THEN analytics \o <<record, record>> ELSE analytics
\* the collection once add() has settled
Added(ok, record) == IF ok THEN Append(analytics, record) ELSE analytics

\* identifyProduct(image, userId), up to the call of the vision model
Identify(img) ==
    /\ ipc = "idle"
    /\ attempts < MaxAttempts
    /\ attempts' = attempts + 1
    /\ image' = img
    /\ LET validation == validateImage(img)
       IN  IF ~validation.isValid
           THEN /\ outcome' = [settled |-> TRUE, success |-> FALSE,
                               error |-> validation.error]
                /\ ipc' = "done"
                /\ UNCHANGED visionCalls
           ELSE /\ visionCalls' = visionCalls + 1
                /\ ipc' = "vision"
                /\ UNCHANGED outcome
    /\ UNCHANGED <<visionReply, identified, logResult, analytics, lookupVars, claimVars>>

\* mutant: the name is checked before the confidence
VisionSettlesNameFirst(reply) ==
    /\ ipc = "vision"
    /\ visionReply' = reply
    /\ IF reply.kind = "error"
       THEN /\ outcome' = Failed(CatchCode(reply.code))
            /\ ipc' = "done"
            /\ UNCHANGED identified
       ELSE IF reply.content.form = "empty"
       THEN /\ outcome' = Failed("NO_RESPONSE")
            /\ ipc' = "done"
            /\ UNCHANGED identified
       ELSE LET productInfoAI == parseGPTResponse(reply.content)
            IN  IF productInfoAI = NoProduct
                THEN /\ outcome' = Failed("PARSE_ERROR")
                     /\ ipc' = "done"
                     /\ UNCHANGED identified
                ELSE IF Includes(toLowerCase(productInfoAI.name), KwNoProduct)
                THEN /\ outcome' = Failed("NO_PRODUCT")
                     /\ ipc' = "done"
                     /\ UNCHANGED identified
                ELSE IF BelowThreshold(productInfoAI.confidence)
                THEN /\ outcome' = Failed("LOW_CONFIDENCE")
                     /\ ipc' = "done"
                     /\ UNCHANGED identified
                ELSE /\ identified' =
                          [f \in DOMAIN productInfoAI \cup {"suggestedWarranty"} |->
                              IF f = "suggestedWarranty"
                              THEN suggestWarranty(productInfoAI.brand,
                                                   productInfoAI.category)
                              ELSE productInfoAI[f]]
                     /\ ipc' = "log"
                     /\ UNCHANGED outcome
    /\ UNCHANGED <<attempts, image, visionCalls, logResult, analytics, lookupVars, claimVars>>
\* openai.chat.completions.create settles
VisionSettles(reply) ==
    /\ ipc = "vision"
    /\ visionReply' = reply
    /\ IF reply.kind = "error"
       THEN /\ outcome' = Failed(CatchCode(reply.code))
            /\ ipc' = "done"
            /\ UNCHANGED identified
       ELSE IF reply.content.form = "empty"
       THEN /\ outcome' = Failed("NO_RESPONSE")
            /\ ipc' = "done"
            /\ UNCHANGED identified
       ELSE LET productInfoAI == parseGPTResponse(reply.content)
            IN  IF productInfoAI = NoProduct
                THEN /\ outcome' = Failed("PARSE_ERROR")
                     /\ ipc' = "done"
                     /\ UNCHANGED identified
                ELSE IF BelowThreshold(productInfoAI.confidence)
                THEN /\ outcome' = Failed("LOW_CONFIDENCE")
                     /\ ipc' = "done"
                     /\ UNCHANGED identified
                ELSE IF Includes(toLowerCase(productInfoAI.name), KwNoProduct)
                THEN /\ outcome' = Failed("NO_PRODUCT")
                     /\ ipc' = "done"
                     /\ UNCHANGED identified
                ELSE /\ identified' =
                          [f \in DOMAIN productInfoAI \cup {"suggestedWarranty"} |->
                              IF f = "suggestedWarranty"
                              THEN suggestWarranty(productInfoAI.brand,
                                                   productInfoAI.category)
                              ELSE productInfoAI[f]]
                     /\ ipc' = "log"
                     /\ UNCHANGED outcome
    /\ UNCHANGED <<attempts, image, visionCalls, logResult, analytics, lookupVars, claimVars>>

\* the add() of logProductIdentification settles and identifyProduct returns
LogSettles(ok) ==
    /\ ipc = "log"
    /\ logResult' = IF ok THEN "added" ELSE "rejected"
    /\ analytics' = Added(ok, LogRecord(UserId, identified))
    /\ outcome' = AfterLog(ok, identified)
    /\ ipc' = "done"
    /\ UNCHANGED <<attempts, image, visionCalls, visionReply, identified, lookupVars, claimVars>>

\* the caller has the result: the next call can be made
IdReturn ==
    /\ ipc = "done"
    /\ ipc' = "idle"
    /\ image' = NoImage
    /\ visionCalls' = 0
    /\ visionReply' = NoReply
    /\ identified' = NoProduct
    /\ logResult' = "none"
    /\ outcome' = NoOutcome
    /\ UNCHANGED <<attempts, analytics, lookupVars, claimVars>>

IdNext ==
    \/ \E img \in Images : Identify(img)
    \/ \E reply \in VisionReplies : VisionSettles(reply)
    \/ \E ok \in BOOLEAN : LogSettles(ok)
    \/ IdReturn

IdSpec == Init /\ [][IdNext]_vars

\* The call of the vision model settles (the client of the model gives up
\* after its own timeout); nothing is assumed of the analytics sink, whose
\* add() identifyProduct awaits without a timeout.
IdFairSpec == IdSpec /\ WF_vars(\E reply \in VisionReplies : VisionSettles(reply))

\* --------------------------------------------------- the claim handlers
Error(status, code) == [status |-> status, success |-> FALSE, code |-> code]
Data(status, data) == [status |-> status, success |-> TRUE, data |-> data]

\* claimRef.get()
ClaimSnapshot(id) ==
    IF id \in DOMAIN claims
    THEN [read |-> TRUE, exists |-> TRUE, data |-> claims[id]]
    ELSE [read |-> TRUE, exists |-> FALSE]

\* const claimData of POST /draft, as the store keeps it
claimData(id, userId, productId, warrantyId) ==
    [claimId |-> id, productId |-> productId, userId |-> userId,
     warrantyId |-> Or(warrantyId, Null), claimStatus |-> "draft",
     notes |-> "", createdAt |-> stamp + 1, updatedAt |-> stamp + 1]

\* router.post('/draft'): the checks, claimRef.set() and the answer
CreateDraft(userId, productId, warrantyId) ==
    /\ drafted < MaxDrafts
    /\ IF productId \notin DOMAIN ProductOwner
       THEN /\ draftAnswer' = Error(404, "PRODUCT_NOT_FOUND")
            /\ UNCHANGED <<claims, drafted, stamp>>
       ELSE IF ProductOwner[productId] # userId
       THEN /\ draftAnswer' = Error(403, "FORBIDDEN")
            /\ UNCHANGED <<claims, drafted, stamp>>
       ELSE IF ~Falsy(warrantyId) /\ warrantyId \notin DOMAIN WarrantyOwner
       THEN /\ draftAnswer' = Error(404, "WARRANTY_NOT_FOUND")
            /\ UNCHANGED <<claims, drafted, stamp>>
       ELSE IF ~Falsy(warrantyId) /\ WarrantyOwner[warrantyId] # userId
       THEN /\ draftAnswer' = Error(403, "FORBIDDEN")
            /\ UNCHANGED <<claims, drafted, stamp>>
       ELSE LET id == drafted + 1
                doc == claimData(id, userId, productId, warrantyId)
            IN  /\ claims' = [k \in DOMAIN claims \cup {id} |->
                                 IF k = id THEN doc ELSE claims[k]]
                /\ drafted' = id
                /\ stamp' = stamp + 1
                /\ draftAnswer' = Data(201, doc)
    /\ UNCHANGED <<claimIssued, cpc, creq, claimDoc, cres, lookupVars, idVars>>

\* router.put('/:id') and router.delete('/:id'), up to the call of claimRef.get()
ClaimRequest(r, req) ==
    /\ cpc[r] = "idle"
    /\ \A q \in ClaimReqs : q < r => cpc[q] # "idle"
    /\ claimIssued < MaxClaimRequests
    /\ claimIssued' = claimIssued + 1
    /\ creq' = [creq EXCEPT ![r] = req]
    /\ cpc' = [cpc EXCEPT ![r] = "get"]
    /\ UNCHANGED <<claims, drafted, draftAnswer, stamp, claimDoc, cres, lookupVars, idVars>>

Answer(r, res) ==
    /\ cres' = [cres EXCEPT ![r] = res]
    /\ cpc' = [cpc EXCEPT ![r] = "done"]

\* claimData?.claimStatus !== 'draft'
CannotDelete(status) == status # "draft"

\* claimRef.get() resolves: the checks of both handlers
ClaimGet(r) ==
    /\ cpc[r] = "get"
    /\ LET doc == ClaimSnapshot(creq[r].id)
       IN  /\ claimDoc' = [claimDoc EXCEPT ![r] = doc]
           /\ IF ~doc.exists THEN Answer(r, Error(404, "NOT_FOUND"))
              ELSE IF doc.data.userId # creq[r].user THEN Answer(r, Error(403, "FORBIDDEN"))
              ELSE IF creq[r].op = "put" /\ doc.data.claimStatus \in Closed
              THEN Answer(r, Error(400, "CLAIM_CLOSED"))
              ELSE IF creq[r].op = "delete" /\ CannotDelete(doc.data.claimStatus)
              THEN Answer(r, Error(400, "CANNOT_DELETE"))
              ELSE /\ cpc' = [cpc EXCEPT ![r] = "write"]
                   /\ UNCHANGED cres
    /\ UNCHANGED <<claims, drafted, draftAnswer, stamp, claimIssued, creq, lookupVars, idVars>>

\* DocumentReference.update(data): the fields given replace the document's
UpdateDoc(id, data) ==
    [k \in DOMAIN claims |->
        IF k = id
        THEN [f \in DOMAIN claims[k] \cup DOMAIN data |->
                 IF f \in DOMAIN data THEN data[f] ELSE claims[k][f]]
        ELSE claims[k]]

\* claimRef.update(updateData) settles: it rejects when the document is gone
ClaimUpdate(r) ==
    /\ cpc[r] = "write"
    /\ creq[r].op = "put"
    /\ IF creq[r].id \notin DOMAIN claims
       THEN /\ Answer(r, Error(500, "UPDATE_FAILED"))
            /\ UNCHANGED <<claims, stamp>>
       ELSE LET reqBody == creq[r].body
                updateData == [f \in DOMAIN reqBody \cup {"updatedAt"} |->
                                  IF f = "updatedAt" THEN stamp + 1 ELSE reqBody[f]]
            IN  /\ claims' = UpdateDoc(creq[r].id, updateData)
                /\ stamp' = stamp + 1
                /\ cpc' = [cpc EXCEPT ![r] = "reget"]
                /\ UNCHANGED cres
    /\ UNCHANGED <<drafted, draftAnswer, claimIssued, creq, claimDoc, lookupVars, idVars>>

\* the second claimRef.get() of the PUT resolves and the document is sent
ClaimReget(r) ==
    /\ cpc[r] = "reget"
    /\ LET updatedDoc == ClaimSnapshot(creq[r].id)
       IN  Answer(r, Data(200, IF updatedDoc.exists THEN updatedDoc.data
                               ELSE [undefined |-> TRUE]))
    /\ UNCHANGED <<claims, drafted, draftAnswer, stamp, claimIssued, creq, claimDoc,
                   lookupVars, idVars>>

\* claimRef.delete() resolves
ClaimDelete(r) ==
    /\ cpc[r] = "write"
    /\ creq[r].op = "delete"
    /\ claims' = [k \in DOMAIN claims \ {creq[r].id} |-> claims[k]]
    /\ Answer(r, [status |-> 200, success |-> TRUE])
    /\ UNCHANGED <<drafted, draftAnswer, stamp, claimIssued, creq, claimDoc,
                   lookupVars, idVars>>

\* the answer is out: the slot is free for the next request
ClaimDone(r) ==
    /\ cpc[r] = "done"
    /\ cpc' = [cpc EXCEPT ![r] = "idle"]
    /\ creq' = [creq EXCEPT ![r] = NoRequest]
    /\ claimDoc' = [claimDoc EXCEPT ![r] = NoSnapshot]
    /\ cres' = [cres EXCEPT ![r] = NoAnswer]
    /\ UNCHANGED <<claims, drafted, draftAnswer, stamp, claimIssued, lookupVars, idVars>>

ClaimRequests ==
    {[op |-> "put", user |-> u, id |-> id, body |-> b] :
        u \in Users, id \in ClaimIds, b \in UpdateBodies}
    \cup {[op |-> "delete", user |-> u, id |-> id] : u \in Users, id \in ClaimIds}

ClaimNext ==
    \/ \E u \in Users : \E p \in ProductIds : \E w \in WarrantyIds : CreateDraft(u, p, w)
    \/ \E r \in ClaimReqs : \E req \in ClaimRequests : ClaimRequest(r, req)
    \/ \E r \in ClaimReqs : ClaimGet(r)
    \/ \E r \in ClaimReqs : ClaimUpdate(r)
    \/ \E r \in ClaimReqs : ClaimReget(r)
    \/ \E r \in ClaimReqs : ClaimDelete(r)
    \/ \E r \in ClaimReqs : ClaimDone(r)

ClaimSpec == Init /\ [][ClaimNext]_vars

\* ------------------------------------------------------------ properties
\* what the claims read off the state
ThreeAdapters == <<UPCitemdb, OpenFoodFacts, EANSearch>>
Past(r) == pc[r] \notin {"idle", "get"}
HasRead(r) == cachedDoc[r].read
FoundDoc(r) == cachedDoc[r].read /\ cachedDoc[r].exists
IsHit(resp) == resp.status = 200 /\ resp.data.cached
IsFreshResult(resp) == resp.status = 200 /\ ~resp.data.cached
IsError(resp, status, code) == resp = [status |-> status, success |-> FALSE, code |-> code]
\* the fields of a cache document other than cachedAt
Content(doc) == [f \in DOMAIN doc \ {"cachedAt"} |-> doc[f]]
\* the payload of a hit built from a cache document
HitOf(doc) ==
    [status |-> 200, success |-> TRUE,
     data |-> [name |-> doc.name, brand |-> doc.brand, category |-> doc.category,
               model |-> doc.model, confidence |-> doc.confidence, cached |-> TRUE]]

\* C1: a lookup whose key has a cache entry younger than the TTL answers
\* success with the cached name, brand, category, model and confidence and
\* cached:true, calls no adapter, and leaves the cache as it was.
C1_HitStep ==
    \A r \in Reqs :
        (/\ pc[r] = "get" /\ pc'[r] # "get"
         /\ cleanBarcode[r] \in DOMAIN cache
         /\ now - cache[cleanBarcode[r]].cachedAt < cacheTTL)
        => /\ response'[r] = HitOf(cache[cleanBarcode[r]])
           /\ pc'[r] = "done"
           /\ calls'[r] = <<>>
           /\ cache' = cache
C1_HitState ==
    \A r \in Reqs :
        IsHit(response[r]) =>
            /\ pc[r] = "done" /\ FoundDoc(r)
            /\ response[r] = HitOf(cachedDoc[r].data)
            /\ calls[r] = <<>> /\ returned[r] = <<>> /\ writes[r] = <<>>
C1_CacheHit == [][C1_HitStep]_vars /\ []C1_HitState
C1_Witness ==
    \E r \in Reqs : IsHit(response[r]) /\ cacheAge[r] > 0 /\ cacheAge[r] < cacheTTL

\* C2: a lookup that begins after a fresh resolution of the same key has been
\* answered, and reads the cache within the TTL of it, answers cached:true
\* and calls no adapter: the adapters were called by the first lookup only.
C2_SecondIsCached ==
    \A r \in Reqs :
        sequel[r] =>
            /\ pc[r] = "done" /\ IsHit(response[r])
            /\ calls[r] = <<>> /\ returned[r] = <<>>
C2_Witness ==
    \E r, q \in Reqs :
        /\ IsFreshResult(response[q]) /\ calls[q] # <<>>
        /\ cleanBarcode[r] = cleanBarcode[q]
        /\ sequel[r] /\ pc[r] = "done" /\ cacheAge[r] = cacheTTL - 1

\* C3: an existing entry is served iff its age at the read is strictly below
\* the TTL; at an age of the TTL or more the fallback chain is started.
C3_FreshStep ==
    \A r \in Reqs :
        (pc[r] = "get" /\ pc'[r] # "get" /\ cleanBarcode[r] \in DOMAIN cache)
        => LET age == now - cache[cleanBarcode[r]].cachedAt
           IN  /\ IsHit(response'[r]) <=> age < cacheTTL
               /\ age >= cacheTTL => pc'[r] = "upc" /\ calls'[r] = <<UPCitemdb>>
C3_ServedIffFresh == [][C3_FreshStep]_vars
C3_Witness ==
    \E r \in Reqs : FoundDoc(r) /\ cacheAge[r] = cacheTTL /\ calls[r] # <<>>

\* C4: the adapters are called in the order UPCitemdb, Open Food Facts,
\* EAN-Search; no adapter is called after one has returned a product, and
\* that product is the result of the lookup.
C4_FirstFound ==
    \A r \in Reqs :
        /\ Len(calls[r]) <= 3
        /\ calls[r] = SubSeq(ThreeAdapters, 1, Len(calls[r]))
        /\ Len(returned[r]) \in {Len(calls[r]), Len(calls[r]) - 1}
        /\ \A i \in 1..Len(returned[r]) :
              returned[r][i] # NoProduct =>
                  /\ i = Len(calls[r])
                  /\ returned[r][i].source = calls[r][i]
                  /\ productInfo[r] = returned[r][i]
        /\ productInfo[r] # NoProduct => productInfo[r] = returned[r][Len(calls[r])]
        /\ IsFreshResult(response[r]) =>
              response[r] = Success(productInfo[r].name, productInfo[r].brand,
                                    productInfo[r].category, productInfo[r].model,
                                    productInfo[r].confidence, FALSE)
C4_Witness ==
    \E r \in Reqs :
        /\ IsFreshResult(response[r])
        /\ calls[r] = <<UPCitemdb, OpenFoodFacts>>
        /\ productInfo[r].source = OpenFoodFacts

\* C5: when all three adapters have returned nothing the response is 404
\* BARCODE_NOT_FOUND and the cache is not written; the cache changes only by
\* the write of a product that an adapter returned to the writing run, for
\* the key of that run, and a lookup that finds no entry for its key calls
\* the adapters.
C5_NoMatchStep ==
    /\ \A r \in Reqs :
          (response[r] = NoResponse /\ IsError(response'[r], 404, "BARCODE_NOT_FOUND"))
          => cache' = cache
    /\ cache' # cache =>
          \E r \in Reqs :
             /\ pc[r] = "set" /\ pc'[r] = "done"
             /\ productInfo[r] # NoProduct
             /\ productInfo[r] = returned[r][Len(returned[r])]
             /\ DOMAIN cache' = DOMAIN cache \cup {cleanBarcode[r]}
             /\ \A k \in DOMAIN cache : k # cleanBarcode[r] => cache'[k] = cache[k]
             /\ cache'[cleanBarcode[r]].name = productInfo[r].name
             /\ cache'[cleanBarcode[r]].source = productInfo[r].source
             /\ cache'[cleanBarcode[r]].confidence = productInfo[r].confidence
    /\ \A r \in Reqs :
          (pc[r] = "get" /\ pc'[r] # "get" /\ cleanBarcode[r] \notin DOMAIN cache)
          => pc'[r] = "upc" /\ calls'[r] = <<UPCitemdb>>
C5_NoMatchState ==
    /\ \A r \in Reqs :
          /\ (Len(returned[r]) = 3 /\ \A i \in 1..3 : returned[r][i] = NoProduct)
             <=> IsError(response[r], 404, "BARCODE_NOT_FOUND")
          /\ response[r].status = 404 =>
                /\ pc[r] = "done" /\ calls[r] = ThreeAdapters
                /\ productInfo[r] = NoProduct /\ writes[r] = <<>>
    /\ \A k \in DOMAIN cache : cache[k].source \in Adapters /\ cache[k].barcode = k
C5_NoMatchNotCached == [][C5_NoMatchStep]_vars /\ []C5_NoMatchState
\* a run answered 404 and a later run of the same key, finding no entry,
\* called the adapters again and resolved
C5_Witness ==
    \E r, q \in Reqs :
        /\ IsError(response[r], 404, "BARCODE_NOT_FOUND")
        /\ cleanBarcode[q] = cleanBarcode[r]
        /\ r \notin rivals[q] /\ q \notin rivals[r]
        /\ HasRead(r) /\ ~cachedDoc[r].exists
        /\ HasRead(q) /\ ~cachedDoc[q].exists
        /\ calls[q] # <<>> /\ IsFreshResult(response[q])

\* the number of characters of a raw barcode that are neither whitespace nor dashes
NormalizedLength(s) == Cardinality({i \in 1..Len(s) : s[i] \notin {" ", "\t", "-"}})
\* the run has neither read nor written the cache nor called an adapter
Untouched(r) ==
    /\ pc[r] = "done" /\ cachedDoc[r] = NoDoc
    /\ calls[r] = <<>> /\ returned[r] = <<>> /\ writes[r] = <<>>

\* C6: a barcode that is missing, not a string or empty is answered 400
\* INVALID_BARCODE, and one whose normalized form is shorter than 8 or longer
\* than 14 characters is answered 400 INVALID_BARCODE_LENGTH, in both cases
\* without a cache read, a cache write or an adapter call; every other
\* barcode passes the validation.
C6_InvalidStep ==
    \A r \in Reqs :
        (pc[r] = "idle" /\ pc'[r] = "done") =>
            /\ cache' = cache
            /\ response'[r].status = 400
C6_InvalidState ==
    \A r \in Reqs :
        body[r] # NoBody =>
            LET b == body[r]
                missing == b.type # "string" \/ b.str = <<>>
                outside == /\ ~missing
                           /\ \/ NormalizedLength(b.str) < 8
                              \/ NormalizedLength(b.str) > 14
            IN  /\ missing => IsError(response[r], 400, "INVALID_BARCODE") /\ Untouched(r)
                /\ outside => IsError(response[r], 400, "INVALID_BARCODE_LENGTH") /\ Untouched(r)
                /\ (~missing /\ ~outside) => pc[r] = "get" /\ response[r] = NoResponse
C6_InvalidRejected == [][C6_InvalidStep]_vars /\ []C6_InvalidState
\* a raw barcode of 8 characters or more whose normalized form has 7
C6_Witness ==
    \E r \in Reqs :
        /\ body[r] # NoBody /\ body[r].type = "string"
        /\ Len(body[r].str) >= 8 /\ NormalizedLength(body[r].str) = 7
        /\ IsError(response[r], 400, "INVALID_BARCODE_LENGTH")
        /\ cache # <<>>

\* a string without the characters of a set
RECURSIVE Without(_, _)
Without(s, set) ==
    IF s = <<>> THEN <<>>
    ELSE (IF Head(s) \in set THEN <<>> ELSE <<Head(s)>>) \o Without(Tail(s), set)
\* the characters that occur in the raw barcodes
RawChars == UNION {{raw[i] : i \in 1..Len(raw)} : raw \in RawStrings}
HasString(r) == body[r] # NoBody /\ body[r].type = "string"

\* C7 as stated: the normalized barcode is the raw one without its
\* non-alphanumeric characters, so that raw barcodes that differ in such
\* characters only have one key, and a key has alphanumeric characters only.
C7_StripsNonAlphanumeric ==
    /\ \A r \in Reqs :
          HasString(r) =>
              cleanBarcode[r] = Without(body[r].str, RawChars \ Alphanumeric)
    /\ \A r, q \in Reqs :
          (/\ HasString(r) /\ HasString(q)
           /\ Without(body[r].str, RawChars \ Alphanumeric)
                = Without(body[q].str, RawChars \ Alphanumeric))
          => cleanBarcode[r] = cleanBarcode[q]
    /\ \A k \in DOMAIN cache : \A i \in 1..Len(k) : k[i] \in Alphanumeric
\* C7: the normalized barcode is the raw one without its whitespace and
\* dashes, every other character kept: raw barcodes that differ in
\* whitespace and dashes only have one key, which is the document id read
\* and written in the cache.
C7_StripsSpacesAndDashes ==
    /\ \A r \in Reqs :
          (HasString(r) /\ body[r].str # <<>>) =>
              cleanBarcode[r] = Without(body[r].str, {" ", "\t", "-"})
    /\ \A r, q \in Reqs :
          (/\ HasString(r) /\ HasString(q)
           /\ Without(body[r].str, {" ", "\t", "-"}) = Without(body[q].str, {" ", "\t", "-"}))
          => cleanBarcode[r] = cleanBarcode[q]
    /\ \A r \in Reqs :
          /\ FoundDoc(r) => cachedDoc[r].data.barcode = cleanBarcode[r]
          /\ \A i \in 1..Len(writes[r]) :
                /\ writes[r][i].key = cleanBarcode[r]
                /\ cleanBarcode[r] \in DOMAIN cache
\* two raw barcodes that differ in whitespace and dashes have one key, a key
\* with a dot in it
C7_Witness ==
    \E r, q \in Reqs :
        /\ pc[r] = "get" /\ pc[q] = "get"
        /\ body[r] # body[q]
        /\ \E i \in 1..Len(body[r].str) : body[r].str[i] = " "
        /\ \E i \in 1..Len(body[r].str) : body[r].str[i] = "-"
        /\ cleanBarcode[r] = cleanBarcode[q]
        /\ \E i \in 1..Len(cleanBarcode[r]) : cleanBarcode[r][i] = "."

\* JavaScript's x || null
OrNull(x) == IF x \in {Undefined, Null, ""} THEN Null ELSE x
\* the cache document of a product resolved at time t
EntryOf(key, p, t) ==
    [barcode |-> key, name |-> p.name, brand |-> OrNull(p.brand),
     category |-> OrNull(p.category), model |-> OrNull(p.model),
     confidence |-> p.confidence, source |-> p.source, cachedAt |-> t]

\* C8: a run that answers a fresh result has made exactly one cache write,
\* at the step of its answer, under its normalized barcode, of the product
\* its adapter returned with cachedAt the time of the write; a run that
\* answers a hit, a 400 or a 404, or has not answered, has made none, and
\* the cache changes in no other way.
C8_WriteStep ==
    /\ \A r \in Reqs :
          (response[r] = NoResponse /\ IsFreshResult(response'[r])) =>
              /\ productInfo[r] # NoProduct
              /\ productInfo[r] = returned[r][Len(returned[r])]
              /\ cache' = [k \in DOMAIN cache \cup {cleanBarcode[r]} |->
                              IF k = cleanBarcode[r]
                              THEN EntryOf(cleanBarcode[r], productInfo[r], now)
                              ELSE cache[k]]
              /\ Len(writes'[r]) = 1
    /\ cache' # cache =>
          \E r \in Reqs : response[r] = NoResponse /\ IsFreshResult(response'[r])
    /\ \A r \in Reqs :
          (response[r] = NoResponse /\ response'[r] # NoResponse
           /\ ~IsFreshResult(response'[r]))
          => cache' = cache /\ writes'[r] = <<>>
C8_WriteState ==
    \A r \in Reqs :
        /\ IsFreshResult(response[r]) =>
              /\ Len(writes[r]) = 1
              /\ writes[r][1].key = cleanBarcode[r]
              /\ writes[r][1].data =
                    EntryOf(cleanBarcode[r], productInfo[r], ServerTimestamp)
              /\ cachedDoc[r].read /\ ~(cachedDoc[r].exists /\ cacheAge[r] < cacheTTL)
        /\ ~IsFreshResult(response[r]) => writes[r] = <<>>
C8_OneWrite == [][C8_WriteStep]_vars /\ []C8_WriteState
\* a stale entry has been replaced by a fresh resolution, written at the
\* time of the resolution
C8_Witness ==
    \E r \in Reqs :
        /\ IsFreshResult(response[r])
        /\ FoundDoc(r) /\ cacheAge[r] >= cacheTTL
        /\ cache[cleanBarcode[r]].cachedAt = now
        /\ cachedDoc[r].data.cachedAt < now
        /\ Len(writes[r]) = 1

Raced(r, q) == q \in rivals[r] /\ pc[r] = "done" /\ pc[q] = "done"
\* the response is the fresh result of the product the run's adapter returned
AnswersOwnProduct(r) ==
    /\ productInfo[r] # NoProduct
    /\ productInfo[r] = returned[r][Len(returned[r])]
    /\ response[r] = Success(productInfo[r].name, productInfo[r].brand,
                             productInfo[r].category, productInfo[r].model,
                             productInfo[r].confidence, FALSE)

\* C10 as stated: two runs that missed the same key together both answer a
\* fresh result of an adapter, and the entry of the key has the content
\* either of them wrote, the same whichever wrote last.
C10_SameWhicheverWritesLast ==
    \A r, q \in Reqs :
        Raced(r, q) =>
            /\ AnswersOwnProduct(r) /\ AnswersOwnProduct(q)
            /\ cleanBarcode[r] \in DOMAIN cache
            /\ Content(cache[cleanBarcode[r]]) = Content(writes[r][1].data)
            /\ Content(cache[cleanBarcode[r]]) = Content(writes[q][1].data)
\* C10: of two runs that missed the same key together, each answers by what
\* its own adapter calls returned, a fresh result of its product or 404; a
\* write replaces the entry of the key as a whole, so that the entry is,
\* with all its fields, the one written by the run that wrote last.
C10_WriteStep ==
    \A r \in Reqs :
        Len(writes'[r]) > Len(writes[r]) =>
            /\ DOMAIN cache' = DOMAIN cache \cup {cleanBarcode[r]}
            /\ Content(cache'[cleanBarcode[r]]) = Content(writes'[r][1].data)
            /\ cache'[cleanBarcode[r]].cachedAt = now
C10_RaceState ==
    \A r, q \in Reqs :
        Raced(r, q) =>
            /\ \A x \in {r, q} :
                  IF productInfo[x] # NoProduct
                  THEN AnswersOwnProduct(x) /\ Len(writes[x]) = 1
                  ELSE IsError(response[x], 404, "BARCODE_NOT_FOUND") /\ writes[x] = <<>>
            /\ (writes[r] # <<>> \/ writes[q] # <<>>) =>
                  /\ cleanBarcode[r] \in DOMAIN cache
                  /\ \E x \in {r, q} :
                        /\ writes[x] # <<>>
                        /\ Content(cache[cleanBarcode[r]]) = Content(writes[x][1].data)
C10_LastWriterWins == [][C10_WriteStep]_vars /\ []C10_RaceState
\* two runs that missed the same key together have written different products
C10_Witness ==
    \E r, q \in Reqs :
        /\ Raced(r, q)
        /\ writes[r] # <<>> /\ writes[q] # <<>>
        /\ productInfo[r].source # productInfo[q].source
        /\ Content(cache[cleanBarcode[r]]) = Content(writes[r][1].data)

\* C11 as stated: when a run has called the adapters for a key and got a
\* product, no other run of that key that read the cache while the first was
\* under way, or within the TTL of its answer, has called an adapter.
C11_OneCallerPerWindow ==
    \A r, q \in Reqs :
        (/\ r # q
         /\ cleanBarcode[r] = cleanBarcode[q]
         /\ calls[q] # <<>> /\ productInfo[q] # NoProduct
         /\ HasRead(r)
         /\ q \in rivals[r] \/ sequel[r])
        => calls[r] = <<>>

\* res.json(): the members of an object whose value is undefined are left out
\* of the body, a null is written as null
ToJSON(obj) == [f \in {g \in DOMAIN obj : obj[g] # Undefined} |-> obj[f]]
\* the data of a response body, the cached flag apart
Payload(resp) ==
    ToJSON([f \in DOMAIN resp.data \ {"cached"} |-> resp.data[f]])

\* C12 as stated: the data of a hit served from the entry that a fresh
\* result wrote is, field for field, the data of that fresh result, the
\* cached flag apart.
C12_HitEqualsFresh ==
    \A r, q \in Reqs :
        (/\ r # q
         /\ IsFreshResult(response[q]) /\ IsHit(response[r])
         /\ cleanBarcode[r] = cleanBarcode[q]
         /\ sequel[r]
         /\ Content(cachedDoc[r].data) = Content(writes[q][1].data))
        => Payload(response[r]) = Payload(response[q])

\* the images of the model that begin with http and are no URL, and the
\* other ones that are not base64
MalformedURLs == {<<"h", "t", "t", "p", ":", "/", "/">>, <<"h", "t", "t", "p", "s", ":", "/", "/", "x", " ", "y", "/", "a", ".", "j", "p", "g">>}
NotBase64 == {<<"i", "n", "v", "a", "l", "i", "d", "-", "i", "m", "a", "g", "e">>}
\* an image without its data:image prefix
PayloadOf(img) ==
    IF StartsWith(img, PngPrefix) THEN SubSeq(img, Len(PngPrefix) + 1, Len(img)) ELSE img
\* the error code the validation of an image is to give, "" for none
ExpectedRejection(img) ==
    IF img \in MalformedURLs THEN "INVALID_IMAGE_URL"
    ELSE IF img \in NotBase64 THEN "INVALID_IMAGE_FORMAT"
    ELSE IF ~StartsWith(img, <<"h", "t", "t", "p">>) /\ Len(PayloadOf(img)) < 100 THEN "IMAGE_TOO_SMALL"
    ELSE ""

\* C13: a malformed http(s) URL is answered INVALID_IMAGE_URL, another
\* string that is not base64 INVALID_IMAGE_FORMAT, whatever its length, and a
\* base64 string of fewer than 100 characters after its data:image prefix
\* IMAGE_TOO_SMALL, each without a call of the vision model and without an
\* analytics record; every other image, a short URL among them, goes on to
\* the vision model.
C13_RejectStep ==
    (ipc = "idle" /\ ipc' = "done") =>
        /\ ExpectedRejection(image') # ""
        /\ visionCalls' = 0
        /\ analytics' = analytics
C13_RejectState ==
    (ipc # "idle") =>
        IF ExpectedRejection(image) # ""
        THEN /\ ipc = "done"
             /\ outcome = Failed(ExpectedRejection(image))
             /\ visionCalls = 0 /\ visionReply = NoReply /\ logResult = "none"
        ELSE /\ visionCalls = 1
             /\ outcome.settled =>
                   (~outcome.success =>
                       outcome.error.code \notin {"INVALID_IMAGE_URL", "INVALID_IMAGE_FORMAT",
                                                  "IMAGE_TOO_SMALL"})
C13_InvalidImageRejected == [][C13_RejectStep]_vars /\ []C13_RejectState
\* a string that is neither base64 nor of 100 characters is answered
\* INVALID_IMAGE_FORMAT, after an identification that was recorded
C13_Witness ==
    /\ ipc = "done"
    /\ image \in NotBase64 /\ Len(image) < 100
    /\ outcome = Failed("INVALID_IMAGE_FORMAT")
    /\ visionCalls = 0
    /\ Len(analytics) = 1

\* the vision model has answered a JSON object with a name and a number for
\* the confidence
Parsed ==
    /\ visionReply.kind = "response"
    /\ visionReply.content.form = "json"
    /\ visionReply.content.parsed.name \notin {Absent, <<>>}
    /\ "num" \in DOMAIN visionReply.content.parsed.confidence
ParsedConfidence == visionReply.content.parsed.confidence.num

ExpectedWarranty ==
    { \* brand Apple
      <<<<"M", "a", "c", "B", "o", "o", "k", " ", "P", "r", "o">>,
        "1 year (Apple standard warranty)">>,
      \* brand SAMSUNG Electronics, before the category Smartphones
      <<<<"G", "a", "l", "a", "x", "y", " ", "S", "2", "4">>,
        "1 year (Samsung standard warranty)">>,
      \* brand Pineapple & Co, before the category Furniture
      <<<<"F", "r", "u", "i", "t", " ", "b", "o", "w", "l">>,
        "1 year (Apple standard warranty)">>,
      \* brand Samsung for Apple: apple is looked for first
      <<<<"D", "o", "c", "k">>,
        "1 year (Apple standard warranty)">>,
      \* category Computers & Tablets
      <<<<"T", "h", "i", "n", "k", "P", "a", "d">>,
        "1-2 years (manufacturer standard)">>,
      \* category Oven electronics, no brand: electronics before appliances
      <<<<"S", "m", "a", "r", "t", " ", "o", "v", "e", "n">>,
        "1-2 years (manufacturer standard)">>,
      \* category Kitchen Appliances and Furniture: appliances before furniture
      <<<<"F", "r", "i", "d", "g", "e">>,
        "2-5 years (varies by type)">>,
      \* category FURNITURE, shoes rack: furniture before clothing
      <<<<"S", "o", "f", "a">>,
        "1-3 years (varies by manufacturer)">>,
      \* category Shoes
      <<<<"S", "n", "e", "a", "k", "e", "r", "s">>,
        "30-90 days (return policy varies)">>,
      \* brand Unknown Corp, category Miscellaneous
      <<<<"T", "h", "i", "n", "g">>,
        "Check manufacturer website">>,
      \* neither brand nor category
      <<<<"W", "i", "d", "g", "e", "t">>,
        "Check manufacturer website">> }

\* C15: the suggestion is that of the first rule that matches, in the order
\* Apple brand, Samsung brand, electronics, appliances, furniture, clothing,
\* fallback; a rule matches a substring whatever the case, a brand rule wins
\* over the category rules, and without brand and category the fallback is
\* given.
C15_FirstRuleWins ==
    identified # NoProduct =>
        /\ \E row \in ExpectedWarranty : row[1] = identified.name
        /\ \A row \in ExpectedWarranty :
              row[1] = identified.name => identified.suggestedWarranty = row[2]
        /\ outcome.settled => outcome = Succeeded(identified)
\* a product whose brand has apple inside a longer word, and whose category
\* is furniture, has been given the Apple suggestion
C15_Witness ==
    /\ ipc = "done" /\ outcome.success
    /\ outcome.result.category = <<"F", "u", "r", "n", "i", "t", "u", "r", "e">>
    /\ outcome.result.suggestedWarranty = "1 year (Apple standard warranty)"

\* C16: when the add() of the analytics record is rejected, identifyProduct
\* resolves with success and the product it resolves with when the add() is
\* accepted: the parsed product of the vision answer with its suggestion.
C16_LogStep ==
    (ipc = "log" /\ ipc' = "done") =>
        /\ outcome' = Succeeded(identified)
        /\ identified' = identified
        /\ logResult' = "rejected" => analytics' = analytics
C16_LogState ==
    logResult # "none" =>
        /\ ipc = "done" /\ Parsed
        /\ outcome.settled /\ outcome.success
        /\ outcome.result.name = visionReply.content.parsed.name
        /\ outcome.result.confidence = ParsedConfidence
        /\ outcome.result.suggestedWarranty =
              suggestWarranty(outcome.result.brand, outcome.result.category)
C16_LogFailureSwallowed == [][C16_LogStep]_vars /\ []C16_LogState
\* the add() was rejected and the identification succeeded
C16_Witness ==
    /\ logResult = "rejected"
    /\ ipc = "done" /\ outcome.success
    /\ analytics = <<>>

\* the calls of identifyProduct that have resolved
Resolved == IF ipc \in {"vision", "log"} THEN attempts - 1 ELSE attempts

\* C17 as stated: every call of identifyProduct that has resolved, with
\* success or with a failure, has left exactly one analytics record.
C17_OneRecordPerAttempt == Len(analytics) = Resolved
\* C17: a call that resolves with success has made one add() of its result
\* to the analytics, which leaves one record, or none when the store rejects
\* it; a call that resolves with a failure has made no add(), and the
\* analytics change in no other way.
C17_RecordStep ==
    /\ (ipc # "done" /\ ipc' = "done" /\ ~outcome'.success) =>
          analytics' = analytics /\ logResult' = "none"
    /\ (ipc # "done" /\ ipc' = "done" /\ outcome'.success) =>
          /\ ipc = "log"
          /\ IF logResult' = "added"
             THEN analytics' = Append(analytics, LogRecord(UserId, outcome'.result))
             ELSE logResult' = "rejected" /\ analytics' = analytics
    /\ analytics' # analytics => (ipc = "log" /\ ipc' = "done" /\ outcome'.success)
C17_RecordState ==
    /\ ipc = "done" => (outcome.success <=> logResult # "none")
    /\ Len(analytics) <= Resolved
C17_RecordPerSuccess == [][C17_RecordStep]_vars /\ []C17_RecordState
\* after a recorded success, a call for which the vision model was asked has
\* resolved with a failure and left no record
C17_Witness ==
    /\ attempts = 2 /\ ipc = "done"
    /\ ~outcome.success /\ outcome.error.code = "LOW_CONFIDENCE"
    /\ visionCalls = 1
    /\ Len(analytics) = 1

\* C18 as stated: when the vision model rejects the call with a code of
\* quota or rate exhaustion, rate_limit_exceeded or insufficient_quota,
\* identifyProduct resolves with the failure RATE_LIMIT, not with the generic
\* IDENTIFICATION_FAILED.
C18_QuotaIsRateLimit ==
    (/\ visionReply.kind = "error"
     /\ visionReply.code \in {"rate_limit_exceeded", "insufficient_quota"})
    => /\ outcome = Failed("RATE_LIMIT")
       /\ outcome.error.code # "IDENTIFICATION_FAILED"

\* the run read an entry of the TTL's age or more
ReadStale(r) == FoundDoc(r) /\ cacheAge[r] >= cacheTTL

\* C19: a run that read a stale entry and whose three adapters return
\* nothing answers 404 BARCODE_NOT_FOUND, not the stale data; none of its
\* steps changes the cache, and no step of any run deletes an entry: the
\* stale entry stays as it was.
C19_StaleStep ==
    /\ \A r \in Reqs :
          (ReadStale(r) /\ pc[r] \in {"upc", "off", "ean"} /\ pc'[r] # pc[r]) =>
              /\ cache' = cache
              /\ pc'[r] = "done" =>
                    /\ IsError(response'[r], 404, "BARCODE_NOT_FOUND")
                    /\ \A i \in 1..3 : returned'[r][i] = NoProduct
                    /\ cache'[cleanBarcode[r]] = cache[cleanBarcode[r]]
    /\ \A k \in DOMAIN cache : k \in DOMAIN cache'
C19_StaleState ==
    \A r \in Reqs :
        ReadStale(r) =>
            /\ ~IsHit(response[r])
            /\ cleanBarcode[r] \in DOMAIN cache
            /\ (Len(returned[r]) = 3 /\ returned[r][3] = NoProduct) =>
                  /\ IsError(response[r], 404, "BARCODE_NOT_FOUND")
                  /\ writes[r] = <<>>
C19_StaleKeptOnNotFound == [][C19_StaleStep]_vars /\ []C19_StaleState
\* a run that read a stale entry has answered 404 and the entry is as read
C19_Witness ==
    \E r \in Reqs :
        /\ ReadStale(r)
        /\ IsError(response[r], 404, "BARCODE_NOT_FOUND")
        /\ cache[cleanBarcode[r]] = cachedDoc[r].data

\* C20: the write of a run that read a stale entry replaces the entry as a
\* whole: barcode, name, brand, category, model, confidence and source are
\* those of the run's product and cachedAt is the time of the write; brand,
\* category or model that the product lacks are stored as null, whatever the
\* old entry had.
C20_ReplaceStep ==
    \A r \in Reqs :
        (ReadStale(r) /\ pc[r] = "set" /\ pc'[r] = "done") =>
            LET key == cleanBarcode[r]
                p == productInfo[r]
            IN  /\ DOMAIN cache'[key] = {"barcode", "name", "brand", "category", "model",
                                         "confidence", "source", "cachedAt"}
                /\ cache'[key].barcode = key
                /\ cache'[key].name = p.name
                /\ cache'[key].confidence = p.confidence
                /\ cache'[key].source = p.source
                /\ cache'[key].cachedAt = now
                /\ \A f \in {"brand", "category", "model"} :
                      cache'[key][f] = IF p[f] \in {Undefined, Null, ""} THEN Null ELSE p[f]
                /\ \A k \in DOMAIN cache : k # key => cache'[k] = cache[k]
C20_WholeReplace == [][C20_ReplaceStep]_vars
\* a stale entry with a brand has been replaced by a product without one
C20_Witness ==
    \E r \in Reqs :
        /\ ReadStale(r) /\ IsFreshResult(response[r])
        /\ cachedDoc[r].data.brand # Null
        /\ cachedDoc[r].data.model # Null
        /\ productInfo[r].brand = Undefined
        /\ cache[cleanBarcode[r]].brand = Null
        /\ cache[cleanBarcode[r]].model = Null
        /\ cache[cleanBarcode[r]].source = productInfo[r].source
        /\ cache[cleanBarcode[r]].cachedAt > cachedDoc[r].data.cachedAt

\* C21: every successful response and every cache entry has a name that is a
\* non-empty string, whatever payload the adapter accepted as a match.
C21_NameFilled ==
    /\ \A r \in Reqs :
          response[r].status = 200 =>
              /\ response[r].data.name \notin {Undefined, Null, ""}
    /\ \A k \in DOMAIN cache : cache[k].name \notin {Undefined, Null, ""}

\* the tier the API document gives each provider
TierOf(source) == IF source = UPCitemdb THEN "high" ELSE "medium"
Tiered(x) ==
    /\ x.source \in Adapters
    /\ x.confidence = TierOf(x.source)
    /\ x.confidence # "low"

\* C22: the confidence tier is fixed per adapter.  Every result an adapter
\* returned, the result the handler holds and every cache entry has
\* confidence 'high' exactly when its source is UPCitemdb and 'medium'
\* exactly when it is Open Food Facts or EAN-Search; a success response
\* carries the tier of the result it was built from; 'low' never occurs.
C22_TierPerAdapter ==
    /\ \A k \in DOMAIN cache : Tiered(cache[k])
    /\ \A r \in Reqs :
          /\ \A i \in 1..Len(returned[r]) :
                /\ returned[r][i] # NoProduct => Tiered(returned[r][i])
                /\ returned[r][i] # NoProduct => returned[r][i].source = calls[r][i]
          /\ productInfo[r] # NoProduct => Tiered(productInfo[r])
          /\ response[r].status = 200 =>
                /\ response[r].data.confidence \in {"high", "medium"}
                /\ response[r].data.cached =>
                      response[r].data.confidence = cachedDoc[r].data.confidence
                /\ ~response[r].data.cached =>
                      response[r].data.confidence = TierOf(productInfo[r].source)
\* a high entry and a medium entry are cached, and a hit replays a tier
C22_Witness ==
    /\ \E k \in DOMAIN cache : cache[k].source = UPCitemdb /\ cache[k].confidence = "high"
    /\ \E r \in Reqs :
          /\ response[r].status = 200
          /\ ~response[r].data.cached
          /\ productInfo[r].source \in {OpenFoodFacts, EANSearch}
          /\ response[r].data.confidence = "medium"

\* C23: a failure of the cache store never escapes the handler.  A run whose
\* cache read was rejected, or whose cache write was rejected after an adapter
\* had resolved the product, has answered 500 LOOKUP_FAILED and nothing else:
\* the resolved product is not returned.
C23_StoreState ==
    \A r \in Reqs :
        /\ storeError[r] # "none" =>
              /\ pc[r] = "done"
              /\ response[r] = Failure(500, "LOOKUP_FAILED")
        /\ storeError[r] = "get" => calls[r] = <<>> /\ writes[r] = <<>>
        /\ storeError[r] = "set" => productInfo[r] # NoProduct /\ Len(writes[r]) = 1
        /\ pc[r] = "done" <=> response[r] # NoResponse
\* exactly one response per request: a response that was sent is not replaced
C23_StoreStep ==
    \A r \in Reqs :
        /\ response[r] # NoResponse => response'[r] \in {response[r], NoResponse}
        /\ (pc[r] = "get" /\ storeError'[r] = "get") =>
               response'[r] = Failure(500, "LOOKUP_FAILED")
        /\ (pc[r] = "set" /\ storeError'[r] = "set") =>
               response'[r] = Failure(500, "LOOKUP_FAILED")
C23_StoreFailureEnveloped == [](C23_StoreState) /\ [][C23_StoreStep]_vars
\* one run lost its read and another lost its write after a product was found
C23_Witness ==
    \E r, q \in Reqs :
        /\ storeError[r] = "get" /\ response[r].status = 500
        /\ storeError[q] = "set" /\ response[q].status = 500
        /\ productInfo[q] # NoProduct

\* the adapters a run has invoked are a prefix of the chain, each at most once
Chain == <<UPCitemdb, OpenFoodFacts, EANSearch>>
C24_CallsOnce ==
    \A r \in Reqs :
        /\ Len(calls[r]) <= 3
        /\ calls[r] = SubSeq(Chain, 1, Len(calls[r]))
        /\ Len(returned[r]) <= Len(calls[r])
        /\ pc[r] = "done" <=> response[r] # NoResponse
\* C24: provided every adapter call and every cache operation completes, a
\* lookup that was received ends with one response, having invoked each
\* adapter at most once, in the order of the chain: at most three calls and
\* no retries.
C24_Terminates ==
    /\ [](C24_CallsOnce)
    /\ \A r \in Reqs : (pc[r] \in {"get", "upc", "off", "ean", "set"}) ~> (pc[r] = "done")
\* a run answered after all three adapters had been called
C24_Witness ==
    \E r \in Reqs : pc[r] = "done" /\ calls[r] = Chain /\ response[r].status \in {200, 404}

\* C25: every outcome of identifyProduct is well formed.  Exactly one of
\* result and error is present and success is true iff result is; a success
\* result has a confidence of at least 0.7, a name that does not contain
\* 'no product' in any case and a suggested warranty; a reply below the
\* threshold is never a success.
C25_WellFormed ==
    /\ outcome.settled =>
          /\ ("result" \in DOMAIN outcome) # ("error" \in DOMAIN outcome)
          /\ outcome.success <=> "result" \in DOMAIN outcome
          /\ outcome.success =>
                /\ outcome.result.confidence >= ConfidenceThreshold
                /\ ~Includes(toLowerCase(outcome.result.name), KwNoProduct)
                /\ "suggestedWarranty" \in DOMAIN outcome.result
                /\ outcome.result.suggestedWarranty \notin {Absent, NullStr, <<>>}
    /\ (outcome.settled /\ Parsed /\ ParsedConfidence < ConfidenceThreshold) =>
          ~outcome.success
\* a success at the threshold, in a call after the first
C25_Witness ==
    /\ outcome.settled /\ outcome.success
    /\ outcome.result.confidence = ConfidenceThreshold
    /\ attempts = 2

\* C26: the confidence of every success result, and of every analytics
\* record, lies within [0, 1]; a reply whose confidence is a number above 1
\* or below 0 is neither returned as a success nor logged with that value.
C26_ConfidenceInRange ==
    /\ (outcome.settled /\ outcome.success) =>
          (outcome.result.confidence >= 0 /\ outcome.result.confidence <= 100)
    /\ \A i \in 1..Len(analytics) :
          analytics[i].confidence >= 0 /\ analytics[i].confidence <= 100

\* C27: the analytics recording does not block the primary response.  Once a
\* product is identified the caller eventually receives the success outcome,
\* whether or not the analytics sink ever answers.
C27_ResultNotBlocked == (ipc = "log") ~> (outcome.settled /\ outcome.success)

NamesNoProduct == Includes(toLowerCase(visionReply.content.parsed.name), KwNoProduct)
NoProductDetected == <<"N", "o", " ", "p", "r", "o", "d", "u", "c", "t", " ", "d", "e", "t", "e", "c", "t", "e", "d">>
ErrorIs(code) == outcome.settled /\ ~outcome.success /\ outcome.error.code = code

C29_ClosedStep ==
    \A id \in DOMAIN claims :
        (claims[id].claimStatus \in Closed /\ id \in DOMAIN claims') =>
            claims'[id] = claims[id]
C29_ClosedImmutable == [][C29_ClosedStep]_vars

\* C30: only the owner deletes a claim, and only while its stored claimStatus
\* is 'draft'.  A step that removes a claim is the step of a DELETE by the
\* claim's owner on a stored draft; a DELETE answered FORBIDDEN or
\* CANNOT_DELETE has left the collection as it was; a claim is created as a
\* draft.
C30_DeleteStep ==
    /\ \A id \in DOMAIN claims \ DOMAIN claims' :
          /\ claims[id].claimStatus = "draft"
          /\ \E r \in ClaimReqs :
                /\ creq[r].op = "delete" /\ creq[r].id = id
                /\ creq[r].user = claims[id].userId
                /\ cres'[r].status = 200
    /\ \A r \in ClaimReqs :
          (creq[r].op = "delete" /\ cpc[r] = "get" /\ cpc'[r] = "done"
             /\ creq[r].id \in DOMAIN claims) =>
              /\ claims' = claims
              /\ claims[creq[r].id].userId # creq[r].user => cres'[r] = Error(403, "FORBIDDEN")
              /\ (claims[creq[r].id].userId = creq[r].user
                    /\ claims[creq[r].id].claimStatus # "draft") =>
                        cres'[r] = Error(400, "CANNOT_DELETE")
    /\ \A id \in DOMAIN claims' \ DOMAIN claims : claims'[id].claimStatus = "draft"
C30_DraftOnlyDelete == [][C30_DeleteStep]_vars

====
